---- MODULE Spec2Model ----
(***************************************************************************)
(* A model of the STACS scan pipeline: the file finder and its thread      *)
(* pool (stacs/scan/loader/filepath.py), the sample generator              *)
(* (stacs/scan/scanner/rules.py), the ignore-list filter                   *)
(* (stacs/scan/filter/ignore_list.py) and the command-line entry point     *)
(* (stacs/scan/entrypoint/cli.py).                                         *)
(*                                                                         *)
(* Strings are sequences of tokens.  A token is a one-character string     *)
(* ("/", "?", ".", "*", "!", "c") or a name free of regular-expression     *)
(* metacharacters ("root", "a.tar.gz" stands for itself as a literal).     *)
(***************************************************************************)
EXTENDS Integers, Sequences, FiniteSets, TLC

(***************************************************************************)
(* Program constants.                                                      *)
(***************************************************************************)
WINDOW_SIZE == 20

CHUNK_SIZE == 65536

EXIT_CODE_UNSUPPRESSED == 100

ARCHIVE_FILE_SEPARATOR == "!"

(***************************************************************************)
(* Bounds of the model.                                                    *)
(***************************************************************************)
\* Metadata jobs that may fail with a file-access error in one finder run.
MaxFailures == 2

\* Worker threads of the finder's pool.
MaxWorkers == 2

\* The size in bytes of the largest file a sample is generated from.
MaxFileSize == 44

\* The longest findings list and the longest ignore list process is run on.
MaxFindings == 2

MaxIgnores == 3

\* The most paths main is given, and the most findings its scanners return.
MaxPaths == 2

MaxMainFindings == 3

\* The most targets run is given.
MaxTargets == 3

\* The most members a zip archive holds.
MaxMembers == 4

\* The most calls of add_artifact.
MaxAdds == 3

(***************************************************************************)
(* Python values.                                                          *)
(***************************************************************************)
\* None for a string-valued field (an empty string is falsy as well).
NoStr == <<>>

\* None for the mime field and other scalar fields.
None == "None"

\* A local variable that has not been assigned yet.
Unbound == [unbound |-> TRUE]

Last(s) == s[Len(s)]

Min(a, b) == IF a <= b THEN a ELSE b

RECURSIVE SetToSeq(_)
SetToSeq(S) ==
    IF S = {} THEN <<>>
    ELSE LET x == CHOOSE y \in S : TRUE
         IN  <<x>> \o SetToSeq(S \ {x})

(***************************************************************************)
(* Regular expressions (Python re), for the part of the syntax the         *)
(* program's patterns use: literals, ".", and the quantifiers "?" and "*"  *)
(* (both greedy).  A quantifier with nothing before it does not compile    *)
(* (re.error: nothing to repeat).                                          *)
(***************************************************************************)
Quantifiers == {"?", "*"}

\* The atoms of a pattern; ok is FALSE when it does not compile.
RECURSIVE ReCompileFrom(_, _)
ReCompileFrom(pattern, i) ==
    IF i > Len(pattern) THEN [ok |-> TRUE, atoms |-> <<>>]
    ELSE IF pattern[i] \in Quantifiers THEN [ok |-> FALSE, atoms |-> <<>>]
    ELSE LET quantified == i < Len(pattern) /\ pattern[i + 1] \in Quantifiers
             atom == [ch |-> pattern[i],
                      q  |-> IF quantified THEN pattern[i + 1] ELSE "1"]
             rest == ReCompileFrom(pattern, IF quantified THEN i + 2 ELSE i + 1)
         IN  [ok |-> rest.ok, atoms |-> <<atom>> \o rest.atoms]

ReCompile(pattern) == ReCompileFrom(pattern, 1).atoms

ReCompiles(pattern) == ReCompileFrom(pattern, 1).ok

AtomMatches(atom, s, j) == j <= Len(s) /\ (atom.ch = "." \/ atom.ch = s[j])

\* The position after the match of atoms[i..] at s[j..] that the backtracking
\* matcher finds first (greedy quantifiers take before they skip); 0: no match.
RECURSIVE ReMatchEnd(_, _, _, _)
ReMatchEnd(atoms, i, s, j) ==
    IF i > Len(atoms) THEN j
    ELSE LET atom == atoms[i]
             take == IF AtomMatches(atom, s, j)
                     THEN ReMatchEnd(atoms, IF atom.q = "*" THEN i ELSE i + 1, s, j + 1)
                     ELSE 0
         IN  IF atom.q = "1" THEN take
             ELSE IF take # 0 THEN take
             ELSE ReMatchEnd(atoms, i + 1, s, j)

\* re.search(pattern, s) is not None, for a pattern that compiles.
ReSearch(pattern, s) ==
    \E start \in 1..(Len(s) + 1) : ReMatchEnd(ReCompile(pattern), 1, s, start) # 0

\* re.sub("^" + pattern, "", s): the match at the start of s, if any, removed.
ReSubPrefix(pattern, s) ==
    LET end == ReMatchEnd(ReCompile(pattern), 1, s, 1)
    IN  IF end = 0 THEN s ELSE SubSeq(s, end, Len(s))

(***************************************************************************)
(* The file system the finder runs on.                                     *)
(***************************************************************************)
\* The scan root: what walker(path) returns for it.
RootFiles == { <<"root", "/", "a.tar.gz">>, <<"root", "/", "b.txt">> }

\* The cache directories a caller may pass ("/c" and "/c?").
CacheDirs == { <<"/", "c">>, <<"/", "c", "?">> }

Basename(filepath) == Last(filepath)

\* The format a file's first chunk classifies as (a key of MIME_TYPE_HANDLERS
\* or None): a.tar.gz is a gzip stream of a.tar, which is a tarball.
MimeOf(filepath) ==
    CASE Basename(filepath) = "a.tar.gz" -> "application/gzip"
      [] Basename(filepath) = "a.tar"    -> "application/x-tar"
      [] OTHER                           -> None

\* The members an archive unpacks to, as paths relative to the destination.
MembersOf(filepath) ==
    CASE Basename(filepath) = "a.tar.gz" -> { <<"a.tar">> }
      [] Basename(filepath) = "a.tar"    -> { <<"cred.txt">>, <<"d", "/", "k.pem">> }
      [] OTHER                           -> {}

\* The digest of a file's bytes: the files of this universe differ in content
\* exactly when they differ in name.
Md5Of(filepath) == <<"md5", Basename(filepath)>>

\* os.path.join(a, b) for a relative b.
PathJoin(a, b) == IF a # <<>> /\ Last(a) = "/" THEN a \o b ELSE a \o <<"/">> \o b

\* The hex digest of a path: a string of hex digits, one per path, so without
\* "/" and without metacharacters.  Modelled as the path's tokens with the
\* separator and the metacharacters replaced by digits.
HexToken(t) ==
    CASE t = "/" -> "2f"
      [] t = "?" -> "3f"
      [] t = "." -> "2e"
      [] t = "*" -> "2a"
      [] OTHER   -> t

path_hash(filepath) == [i \in 1..Len(filepath) |-> HexToken(filepath[i])]

\* destination = os.path.join(cache, archive.path_hash(result.path))
Destination(cachedir, filepath) == PathJoin(cachedir, path_hash(filepath))

\* The keys of MIME_TYPE_HANDLERS that occur in this universe.
MIME_TYPE_HANDLERS == {"application/gzip", "application/x-tar"}

\* What a handler call may do: unpack, or raise.
HandlerOutcomes == {"ok", "InvalidFileException", "FileAccessException"}

\* No exception.
NoError == [kind |-> None, from |-> None]

(***************************************************************************)
(* State.                                                                  *)
(***************************************************************************)
VARIABLES
    \* finder
    cache,            \* the cache argument
    skip_on_eacces,   \* the skip flag
    jobs,             \* every job submitted to the pool: [file, overlay, status]
    futures,          \* the futures dict: ids of the jobs not yet consumed
    pending,          \* the futures as_completed was called with, not yet yielded
    complete,         \* the pass's counter
    entries,          \* the list being built
    result,           \* the loop's local variable
    pc,               \* where the driver is
    error,            \* the exception leaving finder, or None
    failures,         \* metadata jobs that have failed so far
    \* generate_sample
    sample_target,    \* the target: its size on disk, and whether it is binary
    sample_offset,    \* the offset argument
    sample_size,      \* the size argument
    sample,           \* the Sample returned, or NotCalled
    \* by_path, by_pattern, by_hash
    match_finding,    \* the finding argument
    match_ignore,     \* the ignore argument, an Entry the validators accepted
    match_result,     \* what the three functions returned, or NotCalled
    \* process
    findings,         \* the findings argument
    ignore_list,      \* the ignore entries of the ignore_list argument
    filtered,         \* what process returned or raised, or NotCalled
    \* main
    main_pc,          \* where main is
    pretty,           \* the --pretty flag
    paths_left,       \* the paths finder has not been called for yet
    ignored,          \* the ignore list loaded, if --ignore-list was given
    main_findings,    \* the findings list
    cache_directory,  \* the per-run cache directory: absent, created, removed
    exit_code,        \* the local variable
    exit_status,      \* the status the process has exited with, or Running
    scanner_error,    \* the exception of a scanner that main has caught, or None
    \* get_mimetype
    mime_chunk,       \* the chunk: its size and the bytes in it that are not zero
    mime_start,       \* the start flag
    mime_result,      \* the (weight, name) returned, or NotCalled
    \* run
    run_pc,           \* where run is
    run_targets,      \* the targets
    run_skip,         \* skip_on_eacces
    run_futures,      \* the matcher jobs submitted, in the order of submission
    run_findings,     \* the findings list
    run_error,        \* the exception run has raised, or None
    \* zip_handler, and finder's walk of what it unpacked
    zip_members,      \* the number of members of the archive
    zip_fault,        \* where and how the extraction goes wrong, if it does
    zip_result,       \* what zip_handler did, or NotCalled
    zip_walked,       \* the members finder has submitted jobs for, or NotCalled
    \* Entry (ignore list)
    entry_raw,        \* the keyword arguments Entry is constructed with
    entry_result,     \* the Entry constructed or the exception raised, or NotCalled
    \* add_artifact
    sarif_root,       \* the root the report is rendered for
    sarif_artifacts,  \* the artifacts list
    sarif_added,      \* the findings added so far, each with the index returned
    \* gzip_handler and dmg_handler
    ex_file,          \* the archive: which handler it goes to and what is wrong with it
    ex_pc,            \* where the handler is
    ex_chunks,        \* the DMG chunks DMG.extract has still to write
    ex_result,        \* how the handler ended, or NotCalled
    \* XAR.entries
    xar_toc,          \* the file elements of the table of contents, in document order
    xar_result,       \* what entries() returned, or NotCalled
    \* generate_location
    loc_target,       \* the target: whether it is binary, its size, where its newlines are
    loc_offset,       \* the offset of the match
    loc_read,         \* bytes_read, line_number and the position of the file handle
    loc_result,       \* the Location returned, or NotCalled
    \* walker
    walk_fs,          \* the filesystem: each node's parent, kind, link target, permission
    walk_path,        \* the path walker is called with, as the nodes it names
    walk_skip,        \* skip_on_eacces
    walk_result,      \* what walker returned or raised, or NotCalled
    \* libarchive_handler
    lib_entries,      \* the entries the reader has still to yield
    lib_corrupt,      \* whether the reader raises ArchiveError after them
    lib_fs,           \* the filesystem: the nodes under the cache directory
    lib_result        \* how the handler ended, "running", or NotCalled

finderVars == <<cache, skip_on_eacces, jobs, futures, pending, complete, entries,
                result, pc, error, failures>>

sampleVars == <<sample_target, sample_offset, sample_size, sample>>

matchVars == <<match_finding, match_ignore, match_result>>

processVars == <<findings, ignore_list, filtered>>

mainVars == <<main_pc, pretty, paths_left, ignored, main_findings, cache_directory,
              exit_code, exit_status, scanner_error>>

mimeVars == <<mime_chunk, mime_start, mime_result>>

runVars == <<run_pc, run_targets, run_skip, run_futures, run_findings, run_error>>

zipVars == <<zip_members, zip_fault, zip_result, zip_walked>>

entryVars == <<entry_raw, entry_result>>

sarifVars == <<sarif_root, sarif_artifacts, sarif_added>>

extractVars == <<ex_file, ex_pc, ex_chunks, ex_result>>

xarVars == <<xar_toc, xar_result>>

locationVars == <<loc_target, loc_offset, loc_read, loc_result>>

walkerVars == <<walk_fs, walk_path, walk_skip, walk_result>>

libarchiveVars == <<lib_entries, lib_corrupt, lib_fs, lib_result>>

vars == <<finderVars, sampleVars, matchVars, processVars, mainVars, mimeVars, runVars,
          zipVars, entryVars, sarifVars, extractVars, xarVars, locationVars,
          walkerVars, libarchiveVars>>

\* A variable of a component that a specification does not run.
Idle == "idle"

\* The result of a call that has not been made yet.
NotCalled == [called |-> FALSE]

FinderIdle ==
    /\ cache = Idle /\ skip_on_eacces = Idle /\ jobs = Idle /\ futures = Idle
    /\ pending = Idle /\ complete = Idle /\ entries = Idle /\ result = Idle
    /\ pc = Idle /\ error = Idle /\ failures = Idle

SampleIdle ==
    /\ sample_target = Idle /\ sample_offset = Idle /\ sample_size = Idle
    /\ sample = Idle

MatchIdle == match_finding = Idle /\ match_ignore = Idle /\ match_result = Idle

ProcessIdle == findings = Idle /\ ignore_list = Idle /\ filtered = Idle

MainIdle ==
    /\ main_pc = Idle /\ pretty = Idle /\ paths_left = Idle /\ ignored = Idle
    /\ main_findings = Idle /\ cache_directory = Idle /\ exit_code = Idle
    /\ exit_status = Idle /\ scanner_error = Idle

(***************************************************************************)
(* finder.                                                                 *)
(***************************************************************************)
\* metadata(filepath, overlay) when the file can be read.
metadata(filepath, overlay) ==
    [path |-> filepath, md5 |-> Md5Of(filepath), mime |-> MimeOf(filepath),
     overlay |-> overlay]

Job(filepath, overlay) == [file |-> filepath, overlay |-> overlay, status |-> "queued"]

\* pool.submit(metadata, file) for each file of the first walk.
InitialJobs == [i \in 1..Cardinality(RootFiles) |-> Job(SetToSeq(RootFiles)[i], NoStr)]

\* The overlay of a file walked under an archive's destination.
OverlayOf(res, destination, file) ==
    LET parent == IF res.overlay # NoStr THEN res.overlay ELSE res.path
    IN  parent \o <<ARCHIVE_FILE_SEPARATOR>> \o ReSubPrefix(destination \o <<"/", "?">>, file)

\* walker(destination) after the handler has unpacked the archive.
WalkDestination(res, destination) ==
    { PathJoin(destination, member) : member \in MembersOf(res.path) }

\* The jobs submitted for the files of an unpacked archive.
ChildJobs(res) ==
    LET destination == Destination(cache, res.path)
    IN  [i \in 1..Cardinality(WalkDestination(res, destination)) |->
            LET file == SetToSeq(WalkDestination(res, destination))[i]
            IN  Job(file, OverlayOf(res, destination, file))]

\* entries.append(result)
TrackResult(es, res) == Append(es, res)

Finished(j) == jobs[j].status \in {"ok", "failed"}

Running == { j \in DOMAIN jobs : jobs[j].status = "running" }

FinderInit ==
    /\ cache \in CacheDirs
    /\ skip_on_eacces \in BOOLEAN
    /\ jobs = InitialJobs
    /\ futures = DOMAIN InitialJobs
    /\ pending = {}
    /\ complete = 0
    /\ entries = <<>>
    /\ result = Unbound
    /\ pc = "while"
    /\ error = NoError
    /\ failures = 0

\* A worker takes a queued job.
StartJob(j) ==
    /\ jobs[j].status = "queued"
    /\ Cardinality(Running) < MaxWorkers
    /\ jobs' = [jobs EXCEPT ![j].status = "running"]
    /\ UNCHANGED <<cache, skip_on_eacces, futures, pending, complete, entries,
                   result, pc, error, failures>>

\* metadata returns an Entry.
FinishJob(j) ==
    /\ jobs[j].status = "running"
    /\ jobs' = [jobs EXCEPT ![j].status = "ok"]
    /\ UNCHANGED <<cache, skip_on_eacces, futures, pending, complete, entries,
                   result, pc, error, failures>>

\* metadata raises FileAccessException.
FailJob(j) ==
    /\ jobs[j].status = "running"
    /\ failures < MaxFailures
    /\ jobs' = [jobs EXCEPT ![j].status = "failed"]
    /\ failures' = failures + 1
    /\ UNCHANGED <<cache, skip_on_eacces, futures, pending, complete, entries,
                   result, pc, error>>

\* while True: complete = 0; for future in as_completed(futures):
BeginPass ==
    /\ pc = "while"
    /\ complete' = 0
    /\ pending' = futures
    /\ pc' = "for"
    /\ UNCHANGED <<cache, skip_on_eacces, jobs, futures, entries, result, error,
                   failures>>

\* An exception leaves the loop body: the pool's __exit__ waits for the workers.
Raise(kind, from) ==
    /\ pc' = "unwinding"
    /\ error' = [kind |-> kind, from |-> from]

\* One iteration of the for loop: as_completed yields the finished job j.
Consume(j, outcome) ==
    /\ pc = "for"
    /\ j \in pending
    /\ Finished(j)
    /\ complete' = complete + 1
    /\ pending' = pending \ {j}
    /\ UNCHANGED <<cache, skip_on_eacces, failures>>
    /\ LET res == IF jobs[j].status = "ok"
                  THEN metadata(jobs[j].file, jobs[j].overlay)
                  ELSE result
       IN  IF jobs[j].status = "failed" /\ ~skip_on_eacces
           THEN \* except FileAccessException: raise
                /\ Raise("FileAccessException", "future.result")
                /\ outcome = "ok"
                /\ UNCHANGED <<jobs, futures, entries, result>>
           ELSE IF res = Unbound
           THEN \* entries.append(result) with result never assigned
                /\ Raise("UnboundLocalError", "entries.append")
                /\ outcome = "ok"
                /\ UNCHANGED <<jobs, futures, entries, result>>
           ELSE /\ result' = res
                /\ entries' = TrackResult(entries, res)
                /\ IF res.mime \notin MIME_TYPE_HANDLERS
                   THEN \* if not handler: continue
                        /\ outcome = "ok"
                        /\ futures' = futures \ {j}
                        /\ UNCHANGED <<jobs, pc, error>>
                   ELSE IF outcome # "ok"
                   THEN \* handler(result.path, destination) raises
                        /\ Raise(outcome, "handler")
                        /\ futures' = futures \ {j}
                        /\ UNCHANGED jobs
                   ELSE \* the handler unpacks; every walked file is submitted
                        /\ jobs' = jobs \o ChildJobs(res)
                        /\ futures' = (futures \ {j})
                                        \cup ((Len(jobs) + 1)..(Len(jobs) + Len(ChildJobs(res))))
                        /\ UNCHANGED <<pc, error>>

\* A single pass over as_completed.
LoopExitAfterOnePass(count) == TRUE

\* if complete == 0: break
LoopExit(count) == count = 0

\* as_completed is exhausted: the pass ends, and finder returns entries on break
\* (every job has been consumed by then, so the pool's __exit__ does not wait).
EndPass ==
    /\ pc = "for"
    /\ pending = {}
    /\ pc' = IF LoopExit(complete) THEN "returned" ELSE "while"
    /\ UNCHANGED <<cache, skip_on_eacces, jobs, futures, pending, complete, entries,
                   result, error, failures>>

\* The exception propagates without a wait for the workers.
UnwindWithoutWait ==
    /\ pc = "unwinding"
    /\ pc' = "raised"
    /\ UNCHANGED <<cache, skip_on_eacces, jobs, futures, pending, complete, entries,
                   result, error, failures>>

\* ThreadPoolExecutor.__exit__: shutdown(wait=True), then the exception propagates.
Unwind ==
    /\ pc = "unwinding"
    /\ \A j \in DOMAIN jobs : Finished(j)
    /\ pc' = "raised"
    /\ UNCHANGED <<cache, skip_on_eacces, jobs, futures, pending, complete, entries,
                   result, error, failures>>

FinderNext ==
    \/ \E j \in DOMAIN jobs : StartJob(j)
    \/ \E j \in DOMAIN jobs : FinishJob(j)
    \/ \E j \in DOMAIN jobs : FailJob(j)
    \/ BeginPass
    \/ \E j \in DOMAIN jobs, outcome \in HandlerOutcomes : Consume(j, outcome)
    \/ EndPass
    \/ Unwind

(***************************************************************************)
(* generate_sample.                                                        *)
(***************************************************************************)
\* The bytes of a file of the given size: byte i is the one at offset i.
FileBytes(target_sz) == [i \in 1..target_sz |-> i - 1]

\* fin.seek(position); fin.read(sz): at most sz bytes from position on, fewer at
\* the end of the file, and everything to the end for a negative sz.
SeekRead(target_sz, position, sz) ==
    LET last == IF sz < 0 THEN target_sz ELSE Min(position + sz, target_sz)
    IN  SubSeq(FileBytes(target_sz), position + 1, last)

\* base64.b64encode(data): an encoding that b64decode inverts.
b64encode(data) == [b64 |-> data]

\* str(data, "utf-8") for the bytes of an ASCII file: one character per byte.
Utf8(data) == [chars |-> data]

\* if offset - WINDOW_SIZE < 0: ... else: ... (lines 58-63)
BeforeWindow(offset) ==
    IF offset - WINDOW_SIZE < 0
    THEN [sz |-> offset, offset |-> 0]
    ELSE [sz |-> WINDOW_SIZE, offset |-> offset - WINDOW_SIZE]

\* if offset + WINDOW_SIZE > target_sz: ... else: ... (lines 65-70)
AfterWindow(target_sz, offset) ==
    IF offset + WINDOW_SIZE > target_sz
    THEN [sz |-> target_sz - offset, offset |-> target_sz - offset]
    ELSE [sz |-> WINDOW_SIZE, offset |-> offset + WINDOW_SIZE]

generate_sample(target, offset, size) ==
    LET before == SeekRead(target.size, BeforeWindow(offset).offset,
                           BeforeWindow(offset).sz)
        entry  == SeekRead(target.size, offset, size)
        after  == SeekRead(target.size, AfterWindow(target.size, offset).offset,
                            AfterWindow(target.size, offset).sz)
    IN  IF target.binary
        THEN [window |-> WINDOW_SIZE, before |-> b64encode(before),
              after |-> b64encode(after), finding |-> b64encode(entry),
              binary |-> TRUE]
        ELSE [window |-> WINDOW_SIZE, before |-> Utf8(before),
              after |-> Utf8(after), finding |-> Utf8(entry),
              binary |-> FALSE]

\* A file of up to MaxFileSize bytes and a match that lies inside it.
SampleInit ==
    /\ sample_target \in [size : 0..MaxFileSize, binary : BOOLEAN]
    /\ sample_offset \in 0..MaxFileSize
    /\ sample_size \in 1..MaxFileSize
    /\ sample_offset + sample_size <= sample_target.size
    /\ sample = NotCalled

GenerateSample ==
    /\ sample = NotCalled
    /\ sample' = generate_sample(sample_target, sample_offset, sample_size)
    /\ UNCHANGED <<sample_target, sample_offset, sample_size>>

SampleNext == GenerateSample

(***************************************************************************)
(* Ignore entries (stacs/scan/model/ignore_list.py) and findings.          *)
(***************************************************************************)
\* None for an optional integer; an integer n that is set is <<n>>.
NoInt == <<>>

\* None for the ignore attribute of a finding.
NoIgnore == [none |-> TRUE]

Range(seq) == { seq[i] : i \in DOMAIN seq }

\* Python truthiness of an optional string held as a token sequence (path,
\* pattern), of one held as a name (md5, module) and of an optional integer.
TruthySeq(x) == x # NoStr

TruthyStr(x) == x # None /\ x # ""

TruthyInt(x) == x # NoInt /\ x # <<0>>

\* The values dict a validator of a field is handed: the fields declared (and
\* so validated) before it, in the order path, pattern, reason, md5, module,
\* references, offset.  A field not yet validated is not in the dict, and
\* values.get returns None for it.
FieldOrder == <<"path", "pattern", "reason", "md5", "module", "references", "offset">>

FieldIndex(name) == CHOOSE i \in DOMAIN FieldOrder : FieldOrder[i] = name

ValuesGet(raw, field, name) ==
    IF FieldIndex(name) < FieldIndex(field) THEN raw[name]
    ELSE IF name \in {"path", "pattern"} THEN NoStr ELSE None

\* @validator("path", always=True)
exclusive_path_or_pattern(raw) ==
    LET value   == raw.path
        pattern == ValuesGet(raw, "path", "pattern")
        md5     == ValuesGet(raw, "path", "md5")
    IN  IF TruthySeq(pattern) /\ TruthySeq(value) THEN "IgnoreListException"
        ELSE IF TruthySeq(pattern) /\ ~TruthySeq(value) /\ ~TruthyStr(md5)
        THEN "IgnoreListException"
        ELSE None

\* @validator("offset", "references", always=True)
offset_and_references_requires_module(raw, field) ==
    IF ~TruthyStr(ValuesGet(raw, field, "module")) THEN "IgnoreListException" ELSE None

\* @validator("offset", always=True)
offset_and_refernces_both_set(raw) ==
    IF TruthyInt(raw.offset) /\ Len(ValuesGet(raw, "offset", "references")) > 0
    THEN "IgnoreListException"
    ELSE None

\* Entry(**raw) returns an Entry: no validator raises.
EntryAccepted(raw) ==
    /\ exclusive_path_or_pattern(raw) = None
    /\ offset_and_references_requires_module(raw, "references") = None
    /\ offset_and_references_requires_module(raw, "offset") = None
    /\ offset_and_refernces_both_set(raw) = None

\* The module the rule scanner stamps on its findings (__name__ of rules.py),
\* and the default of an ignore entry's module field.
RulesModuleName == "stacs.scan.scanner.rules"

DefaultIgnoreModule == "rules"

\* The keyword arguments Entry is constructed with.
RawEntries ==
    [path       : {NoStr, <<"/", "a">>},
     pattern    : {NoStr, <<"a">>, <<"*">>},
     reason     : {"Test"},
     md5        : {None, "fa19"},
     module     : {DefaultIgnoreModule, RulesModuleName},
     references : {<<>>, <<"SomeRule", "OtherRule">>, <<"OtherRule">>},
     offset     : {NoInt, <<0>>, <<300>>}]

Finding(path, md5, module, reference, offset) ==
    [path |-> path, md5 |-> md5, confidence |-> 50, sample |-> None,
     location |-> [offset |-> offset],
     source |-> [module |-> module, reference |-> reference],
     ignore |-> NoIgnore]

MatchFindings ==
    { Finding(path, md5, module, reference, offset) :
        path \in {<<"/", "a">>, <<"/", "b">>}, md5 \in {"fa19", "cf42"},
        module \in {DefaultIgnoreModule, RulesModuleName},
        reference \in {"SomeRule", "NewRule"}, offset \in {0, 300} }

(***************************************************************************)
(* The ignore-list filter (stacs/scan/filter/ignore_list.py).              *)
(***************************************************************************)
\* What follows a shape match in by_pattern, by_path and by_hash alike: the
\* module, then the references, then the offset.
AfterShapeMatch(finding, ignore) ==
    IF ignore.module # finding.source.module THEN FALSE
    ELSE IF ignore.references # <<>>
    THEN finding.source.reference \in Range(ignore.references)
    ELSE IF ignore.offset # NoInt
    THEN <<finding.location.offset>> = ignore.offset
    ELSE TRUE

\* re.search(ignore.pattern, finding.path) raises re.error.
by_pattern_raises(finding, ignore) ==
    TruthySeq(ignore.pattern) /\ ~ReCompiles(ignore.pattern)

\* by_pattern, when re.search does not raise.
by_pattern(finding, ignore) ==
    IF ~TruthySeq(ignore.pattern) THEN FALSE
    ELSE IF ReSearch(ignore.pattern, finding.path) THEN AfterShapeMatch(finding, ignore)
    ELSE FALSE

by_path(finding, ignore) ==
    IF ~TruthySeq(ignore.path) THEN FALSE
    ELSE IF ignore.path = finding.path THEN AfterShapeMatch(finding, ignore)
    ELSE FALSE

by_hash(finding, ignore) ==
    IF ~TruthyStr(ignore.md5) THEN FALSE
    ELSE IF ignore.md5 = finding.md5 THEN AfterShapeMatch(finding, ignore)
    ELSE FALSE

MatchInit ==
    /\ match_finding \in MatchFindings
    /\ match_ignore \in { raw \in RawEntries : EntryAccepted(raw) }
    /\ match_result = NotCalled

\* The three functions called on the finding and the entry.
Match ==
    /\ match_result = NotCalled
    /\ match_result' =
          [by_path    |-> by_path(match_finding, match_ignore),
           by_pattern |-> IF by_pattern_raises(match_finding, match_ignore)
                          THEN "re.error"
                          ELSE IF by_pattern(match_finding, match_ignore)
                               THEN "True" ELSE "False",
           by_hash    |-> by_hash(match_finding, match_ignore)]
    /\ UNCHANGED <<match_finding, match_ignore>>

MatchNext == Match

\* The loop over the ignore list goes on without a break: the index after k.
NoBreak(k, n) == k + 1

\* break: the index the loop over an ignore list of n entries goes on at after
\* entry k has matched.
Break(k, n) == n + 1

\* A suppressed finding rebuilt from the ignore entry rather than updated.
MarkIgnoredRebuilt(entry, ignore) ==
    [entry EXCEPT !.ignore = [ignored |-> TRUE, reason |-> ignore.reason],
                  !.md5 = ignore.md5]

\* entry.ignore = finding.Ignore(ignored=True, reason=ignore.reason)
MarkIgnored(entry, ignore) ==
    [entry EXCEPT !.ignore = [ignored |-> TRUE, reason |-> ignore.reason]]

\* for ignore in ignore_list.ignore, from entry k on, for one finding: the
\* finding as the loop leaves it, whether re.error was raised (and in which
\* entry), and the entries that were evaluated.
RECURSIVE ApplyIgnores(_, _, _, _)
ApplyIgnores(entry, ignores, k, evaluated) ==
    IF k > Len(ignores)
    THEN [entry |-> entry, raised |-> 0, evaluated |-> evaluated]
    ELSE LET ignore == ignores[k]
             seen   == evaluated \cup {k}
         IN  IF by_path(entry, ignore)
             THEN ApplyIgnores(MarkIgnored(entry, ignore), ignores,
                               Break(k, Len(ignores)), seen)
             ELSE IF by_pattern_raises(entry, ignore)
             THEN [entry |-> entry, raised |-> k, evaluated |-> seen]
             ELSE IF by_pattern(entry, ignore) \/ by_hash(entry, ignore)
             THEN ApplyIgnores(MarkIgnored(entry, ignore), ignores,
                               Break(k, Len(ignores)), seen)
             ELSE ApplyIgnores(entry, ignores, k + 1, seen)

\* process(findings, ignore_list): the filtered findings, or the
\* IgnoreListException raised for the first re.error, with the reason it names;
\* evaluated[i] is the set of entries evaluated for finding i.
RECURSIVE ProcessFrom(_, _, _, _, _)
ProcessFrom(fs, ignores, i, done, evaluated) ==
    IF i > Len(fs)
    THEN [called |-> TRUE, error |-> None, findings |-> done, evaluated |-> evaluated]
    ELSE LET one == ApplyIgnores(fs[i], ignores, 1, {})
         IN  IF one.raised # 0
             THEN [called |-> TRUE, error |-> "IgnoreListException",
                   reason |-> ignores[one.raised].reason,
                   evaluated |-> Append(evaluated, one.evaluated)]
             ELSE ProcessFrom(fs, ignores, i + 1, Append(done, one.entry),
                              Append(evaluated, one.evaluated))

process(fs, ignores) == ProcessFrom(fs, ignores, 1, <<>>, <<>>)

IgnoreEntry(path, pattern, md5, references, offset, reason) ==
    [path |-> path, pattern |-> pattern, reason |-> reason, md5 |-> md5,
     module |-> DefaultIgnoreModule, references |-> references, offset |-> offset]

\* The entries of the ignore lists process is run on: by path, by pattern, by
\* hash, a pattern that does not compile, and a path with a references list.
ProcessEntries ==
    { IgnoreEntry(<<"/", "a">>, NoStr, None, <<>>, NoInt, "by path"),
      IgnoreEntry(NoStr, <<"a">>, None, <<>>, NoInt, "by pattern"),
      IgnoreEntry(NoStr, NoStr, "fa19", <<>>, NoInt, "by hash"),
      IgnoreEntry(NoStr, <<"*">>, None, <<>>, NoInt, "bad pattern"),
      IgnoreEntry(<<"/", "b">>, NoStr, None, <<"OtherRule">>, NoInt, "by reference") }

ProcessFindings ==
    { Finding(<<"/", "a">>, "fa19", DefaultIgnoreModule, "SomeRule", 300),
      Finding(<<"/", "b">>, "cf42", DefaultIgnoreModule, "OtherRule", 0),
      Finding(<<"/", "c">>, "fa19", DefaultIgnoreModule, "SomeRule", 0) }

SeqsUpTo(S, n) == UNION { [1..m -> S] : m \in 0..n }

ProcessInit ==
    /\ findings \in SeqsUpTo(ProcessFindings, MaxFindings)
    /\ ignore_list \in SeqsUpTo({ e \in ProcessEntries : EntryAccepted(e) }, MaxIgnores)
    /\ filtered = NotCalled

Process ==
    /\ filtered = NotCalled
    /\ filtered' = process(findings, ignore_list)
    /\ UNCHANGED <<findings, ignore_list>>

ProcessNext == Process

(***************************************************************************)
(* main (stacs/scan/entrypoint/cli.py).                                    *)
(***************************************************************************)
\* The process has not exited.
NotExited == "running"

\* Without --ignore-list, ignored stays the empty list, which is falsy; a loaded
\* ignore list is an object, which is truthy whatever it holds.
NotGiven == [given |-> FALSE, ignore |-> <<>>]

Loaded(ignores) == [given |-> TRUE, ignore |-> ignores]

\* The ignore lists main may load.
MainIgnoreLists ==
    { <<>>,
      << IgnoreEntry(<<"/", "a">>, NoStr, None, <<>>, NoInt, "by path") >>,
      << IgnoreEntry(<<"/", "a">>, NoStr, None, <<>>, NoInt, "by path"),
         IgnoreEntry(<<"/", "b">>, NoStr, None, <<"OtherRule">>, NoInt, "by reference"),
         IgnoreEntry(NoStr, NoStr, "fa19", <<>>, NoInt, "by hash") >>,
      << IgnoreEntry(NoStr, <<"*">>, None, <<>>, NoInt, "bad pattern") >> }

\* What the call of finder for one path may do: return the targets, raise a
\* STACSException (a file-access or invalid-file error), or raise another error.
FinderOutcomes == {"ok", "STACSException", "UnboundLocalError"}

\* sys.exit(status)
Exit(status) ==
    /\ main_pc' = "exited"
    /\ exit_status' = status

\* An exception that main does not catch ends the process with a traceback.
Uncaught == Exit(1)

MainInit ==
    /\ main_pc = "load_rule_pack"
    /\ pretty \in BOOLEAN
    /\ paths_left \in 1..MaxPaths
    /\ ignored = NotGiven
    /\ main_findings = <<>>
    /\ cache_directory = "absent"
    /\ exit_code = 0
    /\ exit_status = NotExited
    /\ scanner_error = None

\* pack = stacs.scan.model.pack.from_file(rule_pack)
LoadRulePack(ok) ==
    /\ main_pc = "load_rule_pack"
    /\ IF ok
       THEN main_pc' = "load_ignore_list" /\ UNCHANGED exit_status
       ELSE Exit(-1)
    /\ UNCHANGED <<scanner_error, pretty, paths_left, ignored, main_findings, cache_directory,
                   exit_code>>

\* if ignore_list: ignored = stacs.scan.model.ignore_list.from_file(ignore_list)
LoadIgnoreList(given, ok, ignores) ==
    /\ main_pc = "load_ignore_list"
    /\ IF ~given
       THEN /\ ok /\ ignores = <<>>
            /\ main_pc' = "mkdir"
            /\ UNCHANGED <<ignored, exit_status>>
       ELSE IF ok
       THEN /\ ignored' = Loaded(ignores)
            /\ main_pc' = "mkdir"
            /\ UNCHANGED exit_status
       ELSE /\ ignores = <<>>
            /\ Exit(-1)
            /\ UNCHANGED ignored
    /\ UNCHANGED <<scanner_error, pretty, paths_left, main_findings, cache_directory, exit_code>>

\* os.mkdir(cache_directory)
MakeCacheDirectory(ok) ==
    /\ main_pc = "mkdir"
    /\ IF ok
       THEN /\ cache_directory' = "created"
            /\ main_pc' = "finder"
            /\ UNCHANGED exit_status
       ELSE /\ Exit(-2)
            /\ UNCHANGED cache_directory
    /\ UNCHANGED <<scanner_error, pretty, paths_left, ignored, main_findings, exit_code>>

\* for path in paths: targets.extend(finder(path, cache_directory, ...))
FindTargets(outcome) ==
    /\ main_pc = "finder"
    /\ paths_left > 0
    /\ CASE outcome = "ok" ->
              /\ paths_left' = paths_left - 1
              /\ main_pc' = IF paths_left = 1 THEN "scan" ELSE "finder"
              /\ UNCHANGED exit_status
         [] outcome = "STACSException" ->
              /\ Exit(-2)
              /\ UNCHANGED paths_left
         [] OTHER ->
              /\ Uncaught
              /\ UNCHANGED paths_left
    /\ UNCHANGED <<scanner_error, pretty, ignored, main_findings, cache_directory, exit_code>>

\* for scanner in stacs.scan.scanner.__all__: findings.extend(run(targets, pack))
\* and, when the rules do not compile, except InvalidFormatException: continue
RunScanners(compiled, found) ==
    /\ main_pc = "scan"
    /\ main_findings' = IF compiled THEN found ELSE <<>>
    /\ ~compiled => found = <<>>
    /\ scanner_error' = IF compiled THEN None ELSE "InvalidFormatException"
    /\ main_pc' = "filter"
    /\ UNCHANGED <<pretty, paths_left, ignored, cache_directory, exit_code, exit_status>>

\* if ignored: findings = stacs.scan.filter.ignore_list.process(findings, ignored)
FilterFindings ==
    /\ main_pc = "filter"
    /\ IF ~ignored.given
       THEN /\ main_pc' = "cleanup"
            /\ UNCHANGED <<main_findings, exit_status>>
       ELSE IF process(main_findings, ignored.ignore).error = None
       THEN /\ main_findings' = process(main_findings, ignored.ignore).findings
            /\ main_pc' = "cleanup"
            /\ UNCHANGED exit_status
       ELSE /\ Uncaught
            /\ UNCHANGED main_findings
    /\ UNCHANGED <<scanner_error, pretty, paths_left, ignored, cache_directory, exit_code>>

\* shutil.rmtree(cache_directory, onerror=unlink_error)
CleanUp ==
    /\ main_pc = "cleanup"
    /\ cache_directory' = "removed"
    /\ main_pc' = "exit_code"
    /\ UNCHANGED <<scanner_error, pretty, paths_left, ignored, main_findings, exit_code, exit_status>>

\* exit_code = 0; for finding in findings: if not finding.ignore: exit_code = 100
ExitCodeOf(fs) ==
    IF \E i \in DOMAIN fs : fs[i].ignore = NoIgnore
    THEN EXIT_CODE_UNSUPPRESSED
    ELSE 0

DetermineExitCode ==
    /\ main_pc = "exit_code"
    /\ exit_code' = ExitCodeOf(main_findings)
    /\ main_pc' = "render"
    /\ UNCHANGED <<scanner_error, pretty, paths_left, ignored, main_findings, cache_directory,
                   exit_status>>

\* if pretty: stacs.scan.output.pretty.render(findings, pack); sys.exit(exit_code)
RenderPretty ==
    /\ main_pc = "render"
    /\ pretty
    /\ main_pc' = "reported"
    /\ exit_status' = exit_code
    /\ UNCHANGED <<scanner_error, pretty, paths_left, ignored, main_findings, cache_directory,
                   exit_code>>

\* sarif = stacs.scan.output.sarif.render(path, findings, pack); print(sarif):
\* main returns, and the process exits with status 0.
RenderSarif(ok) ==
    /\ main_pc = "render"
    /\ ~pretty
    /\ IF ok
       THEN main_pc' = "reported" /\ exit_status' = 0
       ELSE Exit(-3)
    /\ UNCHANGED <<scanner_error, pretty, paths_left, ignored, main_findings, cache_directory,
                   exit_code>>

MainNext ==
    \/ \E ok \in BOOLEAN : LoadRulePack(ok)
    \/ \E given, ok \in BOOLEAN, ignores \in MainIgnoreLists :
          LoadIgnoreList(given, ok, ignores)
    \/ \E ok \in BOOLEAN : MakeCacheDirectory(ok)
    \/ \E outcome \in FinderOutcomes : FindTargets(outcome)
    \/ \E compiled \in BOOLEAN, found \in SeqsUpTo(ProcessFindings, MaxMainFindings) :
          RunScanners(compiled, found)
    \/ FilterFindings
    \/ CleanUp
    \/ DetermineExitCode
    \/ RenderPretty
    \/ \E ok \in BOOLEAN : RenderSarif(ok)

(***************************************************************************)
(* get_mimetype (stacs/scan/loader/archive.py).                            *)
(***************************************************************************)
MimeIdle == mime_chunk = Idle /\ mime_start = Idle /\ mime_result = Idle

\* MIME_TYPE_HANDLERS.items(), in the order of declaration.
MimeDescriptors ==
    << [name |-> "application/x-tar", weight |-> 1, offset |-> 257, handler |-> "tar_handler",
        magic |-> << <<117, 115, 116, 97, 114>> >>],
       [name |-> "application/gzip", weight |-> 1, offset |-> 0, handler |-> "gzip_handler",
        magic |-> << <<31, 139>> >>],
       [name |-> "application/x-bzip2", weight |-> 1, offset |-> 0, handler |-> "bzip2_handler",
        magic |-> << <<66, 90, 104>> >>],
       [name |-> "application/zip", weight |-> 1, offset |-> 0, handler |-> "zip_handler",
        magic |-> << <<80, 75, 3, 4>>,
                     <<80, 75, 5, 6>>,
                     <<80, 75, 7, 8>> >>],
       [name |-> "application/zlib", weight |-> 1, offset |-> 0, handler |-> "zlib_handler",
        magic |-> << <<120, 1>>,
                     <<120, 94>>,
                     <<120, 156>>,
                     <<120, 218>> >>],
       [name |-> "application/x-xz", weight |-> 1, offset |-> 0, handler |-> "lzma_handler",
        magic |-> << <<253, 55, 122, 88, 90, 0>> >>],
       [name |-> "application/x-rpm", weight |-> 1, offset |-> 0, handler |-> "libarchive_handler",
        magic |-> << <<237, 171, 238, 219>> >>],
       [name |-> "application/x-iso9660-image", weight |-> 1, offset |-> 32769, handler |-> "libarchive_handler",
        magic |-> << <<67, 68, 48, 48, 49>> >>],
       [name |-> "application/x-7z-compressed", weight |-> 1, offset |-> 0, handler |-> "libarchive_handler",
        magic |-> << <<55, 122, 188, 175, 39, 28>> >>],
       [name |-> "application/x-cpio", weight |-> 1, offset |-> 0, handler |-> "libarchive_handler",
        magic |-> << <<199, 113>>,
                     <<113, 199>>,
                     <<48, 55, 48, 55, 48, 49>>,
                     <<48, 55, 48, 55, 48, 50>>,
                     <<48, 55, 48, 55, 48, 55>> >>],
       [name |-> "application/x-xar", weight |-> 1, offset |-> 0, handler |-> "xar_handler",
        magic |-> << <<120, 97, 114, 33>> >>],
       [name |-> "application/vnd.ms-cab-compressed", weight |-> 1, offset |-> 0, handler |-> "libarchive_handler",
        magic |-> << <<77, 83, 67, 70>> >>],
       [name |-> "application/x-archive", weight |-> 1, offset |-> 0, handler |-> "libarchive_handler",
        magic |-> << <<33, 60, 97, 114, 99, 104, 62>> >>],
       [name |-> "application/vnd.rar", weight |-> 1, offset |-> 0, handler |-> "libarchive_handler",
        magic |-> << <<82, 97, 114, 33, 26, 7>> >>],
       [name |-> "application/zstd", weight |-> 1, offset |-> 0, handler |-> "zstd_handler",
        magic |-> << <<40, 181, 47, 253>> >>],
       [name |-> "application/x-apple-diskimage", weight |-> 2, offset |-> -512, handler |-> "dmg_handler",
        magic |-> << <<107, 111, 108, 121>> >>] >>

\* A chunk is its size and the runs of bytes stamped into it; every other byte
\* of it is zero.  The byte at position p (from 0).
ByteAt(chunk, p) ==
    IF \E st \in chunk.stamps : st.at <= p /\ p < st.at + Len(st.bytes)
    THEN LET st == CHOOSE st \in chunk.stamps : st.at <= p /\ p < st.at + Len(st.bytes)
         IN  st.bytes[p - st.at + 1]
    ELSE 0

\* A bound of a slice of a sequence of sz items: a negative index counts from
\* the end, and both are clamped to the sequence.
SliceIndex(sz, i) ==
    IF i < 0
    THEN (IF sz + i < 0 THEN 0 ELSE sz + i)
    ELSE (IF i > sz THEN sz ELSE i)

\* chunk[from : to]
Slice(chunk, from, to) ==
    LET a == SliceIndex(chunk.size, from)
        b == SliceIndex(chunk.size, to)
    IN  IF a < b THEN [i \in 1..(b - a) |-> ByteAt(chunk, a + i - 1)] ELSE <<>>

\* if not start and offset >= 0: continue
Skipped(descriptor, start) == ~start /\ descriptor.offset >= 0

\* for format in magic: if chunk[offset : (offset + len(format))] == format
MagicMatches(chunk, descriptor) ==
    \E k \in DOMAIN descriptor.magic :
        Slice(chunk, descriptor.offset, descriptor.offset + Len(descriptor.magic[k]))
            = descriptor.magic[k]

\* get_mimetype(chunk, start): the loop returns at the first descriptor that is
\* not skipped and has a magic that matches.
get_mimetype(chunk, start) ==
    LET hits == { i \in DOMAIN MimeDescriptors :
                    /\ ~Skipped(MimeDescriptors[i], start)
                    /\ MagicMatches(chunk, MimeDescriptors[i]) }
    IN  IF hits = {}
        THEN <<0, None>>
        ELSE LET first == CHOOSE i \in hits : \A k \in hits : i <= k
             IN  <<MimeDescriptors[first].weight, MimeDescriptors[first].name>>

\* The sizes of the chunks read: up to CHUNK_SIZE bytes.
ChunkSizes == {0, 2, 300, 510, 512, 514, 1024, CHUNK_SIZE}

\* What a chunk may begin with: nothing, or a magic of gzip, zip, zlib, xar.
HeadStamps ==
    { <<>>, <<31, 139>>, <<80, 75, 5, 6>>, <<120, 156>>, <<120, 97, 114, 33>> }

Ustar == <<117, 115, 116, 97, 114>>

Koly == <<107, 111, 108, 121>>

\* The stamp of bytes at position at, when it lies within sz bytes.
Stamp(sz, at, bytes) ==
    IF bytes # <<>> /\ at >= 0 /\ at + Len(bytes) <= sz
    THEN { [at |-> at, bytes |-> bytes] }
    ELSE {}

\* No two of the stamps cover the same position.
Disjoint(stamps) ==
    \A a, b \in stamps :
        a # b => (a.at + Len(a.bytes) <= b.at \/ b.at + Len(b.bytes) <= a.at)

\* The chunks: a head or none, "ustar" at 257 or not, "koly" 512 bytes before
\* the end or not.
Chunks ==
    { c \in { [size |-> sz,
               stamps |-> Stamp(sz, 0, head)
                          \cup (IF ustar THEN Stamp(sz, 257, Ustar) ELSE {})
                          \cup (IF koly THEN Stamp(sz, sz - 512, Koly) ELSE {})] :
                sz \in ChunkSizes, head \in HeadStamps, ustar, koly \in BOOLEAN } :
        Disjoint(c.stamps) }

MimeInit ==
    /\ mime_chunk \in Chunks
    /\ mime_start \in BOOLEAN
    /\ mime_result = NotCalled

GetMimetype ==
    /\ mime_result = NotCalled
    /\ mime_result' = [called |-> TRUE, value |-> get_mimetype(mime_chunk, mime_start)]
    /\ UNCHANGED <<mime_chunk, mime_start>>

MimeNext == GetMimetype

(***************************************************************************)
(* run (stacs/scan/scanner/rules.py).                                      *)
(***************************************************************************)
RunIdle ==
    /\ run_pc = Idle /\ run_targets = Idle /\ run_skip = Idle
    /\ run_futures = Idle /\ run_findings = Idle /\ run_error = Idle

\* The targets finder gives for root/a.tar.gz (holding a.tar, holding cred.txt)
\* and root/b.txt, with the cache directory /c.
ArchivePath == <<"root", "/", "a.tar.gz">>

TarPath == PathJoin(Destination(<<"/", "c">>, ArchivePath), <<"a.tar">>)

CredPath == PathJoin(Destination(<<"/", "c">>, TarPath), <<"cred.txt">>)

RunTargets ==
    { metadata(ArchivePath, NoStr),
      metadata(TarPath, ArchivePath \o <<ARCHIVE_FILE_SEPARATOR, "a.tar">>),
      metadata(CredPath, ArchivePath \o <<ARCHIVE_FILE_SEPARATOR, "a.tar",
                                          ARCHIVE_FILE_SEPARATOR, "cred.txt">>),
      metadata(<<"root", "/", "b.txt">>, NoStr) }

\* generate_findings(target, match): one finding for each matched string, here
\* given by its offset.
generate_findings(target, offsets) ==
    [i \in DOMAIN offsets |->
        Finding(IF target.overlay # NoStr THEN target.overlay ELSE target.path,
                target.md5, RulesModuleName, "SomeRule", offsets[i])]

\* What matcher(target, ruleset) may return: no finding, one, or two.
MatcherResults(target) ==
    { generate_findings(target, offsets) : offsets \in {<<>>, <<0>>, <<0, 300>>} }

\* A target is submitted whatever its mime.
SubmittedAlways(target) == TRUE

\* if target.mime not in archive.MIME_TYPE_HANDLERS
Submitted(target) == target.mime \notin MIME_TYPE_HANDLERS

\* The indexes of the targets that are submitted, in the order of the targets.
RECURSIVE SubmittedFrom(_, _)
SubmittedFrom(targets, i) ==
    IF i > Len(targets) THEN <<>>
    ELSE IF Submitted(targets[i])
    THEN <<[target |-> i, status |-> "pending", result |-> <<>>, consumed |-> FALSE]>>
            \o SubmittedFrom(targets, i + 1)
    ELSE SubmittedFrom(targets, i + 1)

RunInit ==
    /\ run_pc = "compile"
    /\ run_targets \in SeqsUpTo(RunTargets, MaxTargets)
    /\ run_skip \in BOOLEAN
    /\ run_futures = <<>>
    /\ run_findings = <<>>
    /\ run_error = None

\* ruleset = yara.compile(filepaths=namespaces), or raise InvalidFormatException
CompileRules(ok) ==
    /\ run_pc = "compile"
    /\ IF ok
       THEN run_pc' = "submit" /\ UNCHANGED run_error
       ELSE run_pc' = "raised" /\ run_error' = "InvalidFormatException"
    /\ UNCHANGED <<run_targets, run_skip, run_futures, run_findings>>

\* for target in targets: if ...: futures.append(pool.submit(matcher, ...))
SubmitMatchers ==
    /\ run_pc = "submit"
    /\ run_futures' = SubmittedFrom(run_targets, 1)
    /\ run_pc' = "drain"
    /\ UNCHANGED <<run_targets, run_skip, run_findings, run_error>>

\* A matcher job returns its findings.
MatcherReturns(f, found) ==
    /\ run_pc \in {"drain", "unwinding"}
    /\ run_futures[f].status = "pending"
    /\ run_futures' = [run_futures EXCEPT ![f].status = "ok", ![f].result = found]
    /\ UNCHANGED <<run_pc, run_targets, run_skip, run_findings, run_error>>

\* A matcher job raises FileAccessException (generate_location, generate_sample).
MatcherRaises(f) ==
    /\ run_pc \in {"drain", "unwinding"}
    /\ run_futures[f].status = "pending"
    /\ run_futures' = [run_futures EXCEPT ![f].status = "failed"]
    /\ UNCHANGED <<run_pc, run_targets, run_skip, run_findings, run_error>>

\* for future in as_completed(futures): the body, for a future that is done.
ConsumeFuture(f) ==
    /\ run_pc = "drain"
    /\ run_futures[f].status # "pending"
    /\ ~run_futures[f].consumed
    /\ run_futures' = [run_futures EXCEPT ![f].consumed = TRUE]
    /\ IF run_futures[f].status = "ok"
       THEN /\ run_findings' = run_findings \o run_futures[f].result
            /\ UNCHANGED <<run_pc, run_error>>
       ELSE IF run_skip
       THEN UNCHANGED <<run_pc, run_findings, run_error>>
       ELSE /\ run_pc' = "unwinding"
            /\ run_error' = "FileAccessException"
            /\ UNCHANGED run_findings
    /\ UNCHANGED <<run_targets, run_skip>>

\* The pool is left when every job is done: return findings, or the exception
\* goes on to the caller.
LeavePool ==
    /\ run_pc \in {"drain", "unwinding"}
    /\ \A f \in DOMAIN run_futures : run_futures[f].status # "pending"
    /\ run_pc = "drain" => \A f \in DOMAIN run_futures : run_futures[f].consumed
    /\ run_pc' = IF run_pc = "drain" THEN "returned" ELSE "raised"
    /\ UNCHANGED <<run_targets, run_skip, run_futures, run_findings, run_error>>

RunNext ==
    \/ \E ok \in BOOLEAN : CompileRules(ok)
    \/ SubmitMatchers
    \/ \E f \in DOMAIN run_futures :
          \E found \in MatcherResults(run_targets[run_futures[f].target]) :
              MatcherReturns(f, found)
    \/ \E f \in DOMAIN run_futures : MatcherRaises(f)
    \/ \E f \in DOMAIN run_futures : ConsumeFuture(f)
    \/ LeavePool

(***************************************************************************)
(* zip_handler (stacs/scan/loader/archive.py) and the walk that follows it *)
(* in finder.                                                              *)
(***************************************************************************)
ZipIdle ==
    zip_members = Idle /\ zip_fault = Idle /\ zip_result = Idle /\ zip_walked = Idle

NoFault == [stage |-> "none", at |-> 0, kind |-> None]

\* What reader.extractall may raise while it writes a member.
ExtractErrors ==
    {"RuntimeError: encrypted", "RuntimeError", "NotADirectoryError", "OSError",
     "IndexError", "BadZipFile", "NotImplementedError"}

\* The faults of an extraction of n members: none, os.mkdir fails,
\* zipfile.ZipFile(filepath) fails, or extractall fails at member at.
Faults(n) ==
    {NoFault} \cup {[stage |-> "mkdir", at |-> 0, kind |-> "OSError"]}
    \cup { [stage |-> "open", at |-> 0, kind |-> k] : k \in {"BadZipFile", "OSError"} }
    \cup { [stage |-> "extract", at |-> i, kind |-> k] : i \in 1..n, k \in ExtractErrors }

\* The except clauses around reader.extractall(directory): the error is logged
\* or dropped and the handler goes on, or it leaves the with block.
Demoted(kind) ==
    IF kind \in {"RuntimeError: encrypted", "RuntimeError", "NotADirectoryError",
                 "OSError", "IndexError"}
    THEN "caught"
    ELSE "raise"

\* zip_handler(filepath, directory) for an archive of n members: how it ends,
\* and the members written to the directory.
zip_handler(n, fault) ==
    CASE fault.stage = "mkdir" ->
           [called |-> TRUE, outcome |-> "FileAccessException", written |-> {}]
      [] fault.stage = "open" ->
           [called |-> TRUE, outcome |-> "InvalidFileException", written |-> {}]
      [] fault.stage = "extract" ->
           [called |-> TRUE,
            outcome |-> IF Demoted(fault.kind) = "caught" THEN "ok"
                        ELSE IF fault.kind = "BadZipFile" THEN "InvalidFileException"
                        ELSE fault.kind,
            written |-> 1..(fault.at - 1)]
      [] OTHER ->
           [called |-> TRUE, outcome |-> "ok", written |-> 1..n]

ZipInit ==
    /\ zip_members \in 0..MaxMembers
    /\ zip_fault \in Faults(zip_members)
    /\ zip_result = NotCalled
    /\ zip_walked = NotCalled

\* handler(result.path, destination)
ExtractZip ==
    /\ zip_result = NotCalled
    /\ zip_result' = zip_handler(zip_members, zip_fault)
    /\ UNCHANGED <<zip_members, zip_fault, zip_walked>>

\* for file in walker(destination, skip_on_eacces): ... pool.submit(...)
WalkExtracted ==
    /\ zip_result # NotCalled
    /\ zip_result.outcome = "ok"
    /\ zip_walked = NotCalled
    /\ zip_walked' = [called |-> TRUE, files |-> zip_result.written]
    /\ UNCHANGED <<zip_members, zip_fault, zip_result>>

ZipNext == ExtractZip \/ WalkExtracted

(***************************************************************************)
(* Construction of an ignore Entry (stacs/scan/model/ignore_list.py).      *)
(***************************************************************************)
EntryIdle == entry_raw = Idle /\ entry_result = Idle

EntryInit ==
    /\ entry_raw \in RawEntries
    /\ entry_result = NotCalled

\* Entry(**raw): the validators run in the order of the fields; the first that
\* raises ends the construction.
ConstructEntry ==
    /\ entry_result = NotCalled
    /\ entry_result' =
          IF EntryAccepted(entry_raw)
          THEN [called |-> TRUE, error |-> None, entry |-> entry_raw]
          ELSE [called |-> TRUE, error |-> "IgnoreListException", entry |-> entry_raw]
    /\ UNCHANGED entry_raw

EntryNext == ConstructEntry

(***************************************************************************)
(* add_artifact (stacs/scan/output/sarif.py).  An artifact is a record of  *)
(* its uri, its parentIndex (NoInt when it has none) and its md5; indexes  *)
(* count from 1.                                                           *)
(***************************************************************************)
SarifIdle == sarif_root = Idle /\ sarif_artifacts = Idle /\ sarif_added = Idle

\* render_artifact(path, parent)
render_artifact(path, parent) == [uri |-> path, parentIndex |-> parent, md5 |-> None]

\* s.split(ARCHIVE_FILE_SEPARATOR)
RECURSIVE Split(_)
Split(s) ==
    IF \A i \in DOMAIN s : s[i] # ARCHIVE_FILE_SEPARATOR THEN <<s>>
    ELSE LET i == CHOOSE i \in DOMAIN s :
                     /\ s[i] = ARCHIVE_FILE_SEPARATOR
                     /\ \A k \in 1..(i - 1) : s[k] # ARCHIVE_FILE_SEPARATOR
         IN  <<SubSeq(s, 1, i - 1)>> \o Split(SubSeq(s, i + 1, Len(s)))

\* s.lstrip("/")
RECURSIVE LStrip(_)
LStrip(s) == IF s # <<>> /\ s[1] = "/" THEN LStrip(Tail(s)) ELSE s

\* re.sub(rf"^{root}", "", real_path).lstrip("/")
StripRoot(root, real_path) == LStrip(ReSubPrefix(root, real_path))

\* The while loop of path_in_artifacts: "found" when the walk up the two parent
\* chains ends in the KeyError of an artifact with no parentIndex, "differ"
\* when it breaks, "TypeError" when it indexes the list with None.
RECURSIVE CommonAncestry(_, _, _)
CommonAncestry(artifacts, their_parent, our_parent) ==
    IF our_parent # their_parent THEN "differ"
    ELSE IF their_parent = NoInt THEN "TypeError"
    ELSE IF artifacts[their_parent[1]].parentIndex = NoInt THEN "found"
    ELSE CommonAncestry(artifacts, artifacts[their_parent[1]].parentIndex,
                        artifacts[our_parent[1]].parentIndex)

\* The body of the for loop of path_in_artifacts returns index.
SameArtifact(artifacts, index, path, parent) ==
    /\ artifacts[index].uri = path
    /\ \/ artifacts[index].parentIndex = NoInt /\ parent = NoInt
       \/ CommonAncestry(artifacts, artifacts[index].parentIndex, parent) = "found"

\* path_in_artifacts(path, artifacts, parent): the index, or NoInt for None.
path_in_artifacts(path, artifacts, parent) ==
    LET hits == { i \in DOMAIN artifacts : SameArtifact(artifacts, i, path, parent) }
    IN  IF hits = {} THEN NoInt
        ELSE <<CHOOSE i \in hits : \A k \in hits : i <= k>>

\* The for loop of add_artifact from component k on.
RECURSIVE AddFrom(_, _, _, _, _)
AddFrom(root, parts, k, artifacts, parent) ==
    IF k > Len(parts) THEN [parent |-> parent, artifacts |-> artifacts]
    ELSE LET path       == StripRoot(root, parts[k])
             new_parent == path_in_artifacts(path, artifacts, parent)
         IN  IF new_parent # NoInt
             THEN AddFrom(root, parts, k + 1, artifacts, new_parent)
             ELSE AddFrom(root, parts, k + 1,
                          Append(artifacts, render_artifact(path, parent)),
                          <<Len(artifacts) + 1>>)

\* add_artifact(root, finding, artifacts): (parent, artifacts)
add_artifact(root, finding, artifacts) ==
    LET done == AddFrom(root, Split(finding.path), 1, artifacts, NoInt)
    IN  [parent |-> done.parent[1],
         artifacts |-> [done.artifacts EXCEPT ![done.parent[1]].md5 = finding.md5]]

\* The findings reported: files of the root /a, a file outside of it, and files
\* of archives nested in the root.
SarifFindings ==
    { [path |-> <<"/", "a", "/", "x">>, md5 |-> "m1"],
      [path |-> <<"/", "x">>, md5 |-> "m2"],
      [path |-> <<"/", "a", "/", "t.tar", "!", "m", "!", "x">>, md5 |-> "m3"],
      [path |-> <<"/", "a", "/", "u.tar", "!", "m", "!", "x">>, md5 |-> "m4"],
      [path |-> <<"/", "a", "/", "t.tar", "!", "x">>, md5 |-> "m5"] }

SarifInit ==
    /\ sarif_root \in { <<"/", "a">>, <<"/", "a", "/">> }
    /\ sarif_artifacts = <<>>
    /\ sarif_added = <<>>

\* _, artifacts = add_artifact(root, finding, artifacts)
AddArtifact(finding) ==
    /\ Len(sarif_added) < MaxAdds
    /\ LET added == add_artifact(sarif_root, finding, sarif_artifacts)
       IN  /\ sarif_artifacts' = added.artifacts
           /\ sarif_added' = Append(sarif_added,
                                    [path |-> finding.path, index |-> added.parent])
    /\ UNCHANGED sarif_root

SarifNext == \E finding \in SarifFindings : AddArtifact(finding)

(***************************************************************************)
(* gzip_handler and dmg_handler (stacs/scan/loader/archive.py) with            *)
(* DMG.extract (stacs/scan/loader/format/dmg.py).  An archive is described by  *)
(* what the library calls the handler makes do with it: os.mkdir of the        *)
(* destination, gzip's read of the stream, DMG's read of the trailer, and the  *)
(* decompressor of each DMG chunk.  A handler ends by returning or with the    *)
(* name of the exception that leaves it.                                       *)
(***************************************************************************)
ExtractIdle == ex_file = Idle /\ ex_pc = Idle /\ ex_chunks = Idle /\ ex_result = Idle

MaxChunks == 2

\* What GzipFile.read raises on a stream: BadGzipFile for a bad header or
\* checksum, EOFError for a stream that ends early, zlib.error for deflate data
\* that cannot be inflated.
GzipStreams == {"sound", "BadGzipFile", "EOFError", "zlib.error"}

\* A DMG chunk: its type, and whether its data is a stream of that type.
ChunkTypes == {"zlib", "bz2", "lzma", "zero", "comment"}

DmgChunks == [type : ChunkTypes, valid : BOOLEAN]

\* What the chunk's decompressor raises: zlib.decompress raises zlib.error,
\* bz2.decompress OSError, lzma.decompress LZMAError.
Decompress(chunk) ==
    IF chunk.valid \/ chunk.type \in {"zero", "comment"} THEN "written"
    ELSE CASE chunk.type = "zlib" -> "zlib.error"
           [] chunk.type = "bz2"  -> "OSError"
           [] chunk.type = "lzma" -> "LZMAError"

ExtractInit ==
    /\ \E handler \in {"gzip_handler", "dmg_handler"}, mkdir \in {"made", "OSError"},
          stream \in GzipStreams, open \in {"read", "OSError", "not koly"} :
          /\ handler = "gzip_handler" => open = "read"
          /\ handler = "dmg_handler" => stream = "sound"
          /\ ex_file = [handler |-> handler, mkdir |-> mkdir, stream |-> stream,
                        open |-> open]
          /\ \E n \in 0 .. MaxChunks :
                /\ handler = "gzip_handler" => n = 0
                /\ ex_chunks \in [1 .. n -> DmgChunks]
    /\ ex_pc = "mkdir"
    /\ ex_result = NotCalled

ExtractEnds(how) == ex_pc' = "done" /\ ex_result' = [called |-> TRUE, ended |-> how]

\* os.mkdir(directory, mode=0o700); OSError becomes FileAccessException.
MakeDirectory ==
    /\ ex_pc = "mkdir"
    /\ IF ex_file.mkdir = "OSError"
       THEN ExtractEnds("FileAccessException")
       ELSE ex_pc' = ex_file.handler /\ UNCHANGED ex_result
    /\ UNCHANGED <<ex_file, ex_chunks>>

\* gzip_handler's copy: only gzip.BadGzipFile is caught.
GzipCopy ==
    /\ ex_pc = "gzip_handler"
    /\ ExtractEnds(CASE ex_file.stream = "sound"       -> "returned"
                     [] ex_file.stream = "BadGzipFile" -> "InvalidFileException"
                     [] OTHER                          -> ex_file.stream)
    /\ UNCHANGED <<ex_file, ex_chunks>>

\* dmg_handler: dmg.DMG(filepath)
DmgOpen ==
    /\ ex_pc = "dmg_handler"
    /\ CASE ex_file.open = "OSError"  -> ExtractEnds("FileAccessException")
         [] ex_file.open = "not koly" -> ExtractEnds("InvalidFileException")
         [] OTHER                     -> ex_pc' = "extract" /\ UNCHANGED ex_result
    /\ UNCHANGED <<ex_file, ex_chunks>>

\* DMG.extract: one chunk; OSError, LZMAError and ValueError are caught.
DmgChunk ==
    /\ ex_pc = "extract"
    /\ ex_chunks # <<>>
    /\ LET raised == Decompress(Head(ex_chunks))
       IN  CASE raised = "written"                -> ex_pc' = "extract" /\ UNCHANGED ex_result
             [] raised \in {"OSError", "LZMAError"} -> ExtractEnds("InvalidFileException")
             [] OTHER                             -> ExtractEnds(raised)
    /\ ex_chunks' = Tail(ex_chunks)
    /\ UNCHANGED ex_file

\* DMG.extract returns, and dmg_handler with it.
DmgReturn ==
    /\ ex_pc = "extract"
    /\ ex_chunks = <<>>
    /\ ExtractEnds("returned")
    /\ UNCHANGED <<ex_file, ex_chunks>>

ExtractNext == MakeDirectory \/ GzipCopy \/ DmgOpen \/ DmgChunk \/ DmgReturn

(***************************************************************************)
(* XAR.entries and XAR._parse_entries (stacs/scan/loader/format/xar.py).      *)
(* The table of contents is the sequence of its file elements in document   *)
(* order; each names its parent element (0 for the toc element), its type    *)
(* and its name.  The data of the k-th element is at offset k.                *)
(***************************************************************************)
XarIdle == xar_toc = Idle /\ xar_result = Idle

MaxElements == 3

\* The element k is below the element root.
RECURSIVE Within(_, _, _)
Within(toc, k, root) ==
    /\ toc[k].parent # 0
    /\ toc[k].parent = root \/ Within(toc, toc[k].parent, root)

\* os.path.join(directory, name) for a name without a separator
JoinName(directory, name) ==
    IF directory = <<>> THEN <<name>> ELSE directory \o <<"/", name>>

\* _parse_entries(root, directory); ExtendFrom is its loop over
\* root.findall(".//file"), every file element below root, from the k-th on.
RECURSIVE parse_entries(_, _, _), ExtendFrom(_, _, _, _)
parse_entries(toc, root, directory) ==
    LET path == JoinName(directory, toc[root].name)
    IN  CASE toc[root].type = "directory" -> ExtendFrom(toc, root, path, root + 1)
          [] toc[root].type = "file" ->
                <<[offset |-> root, path |-> path, name |-> toc[root].name]>>
          [] OTHER -> <<>>

ExtendFrom(toc, root, path, k) ==
    IF k > Len(toc) THEN <<>>
    ELSE (IF Within(toc, k, root) THEN parse_entries(toc, k, path) ELSE <<>>)
            \o ExtendFrom(toc, root, path, k + 1)

\* entries(), from the k-th element on: findall("./toc/file") is the elements
\* whose parent is the toc element.
RECURSIVE entries_from(_, _)
entries_from(toc, k) ==
    IF k > Len(toc) THEN <<>>
    ELSE (IF toc[k].parent = 0 THEN parse_entries(toc, k, <<>>) ELSE <<>>)
            \o entries_from(toc, k + 1)

\* A table of contents: an element is inside a directory element that is still
\* open where it appears.
XarTocs ==
    UNION {{toc \in [1 .. n -> [parent : 0 .. n, type : {"file", "directory", "symlink"},
                                name : {"a", "b"}]] :
                \A k \in 1 .. n :
                    toc[k].parent # 0 =>
                        /\ toc[k].parent < k
                        /\ toc[toc[k].parent].type = "directory"
                        /\ toc[k].parent = k - 1 \/ Within(toc, k - 1, toc[k].parent)} :
           n \in 0 .. MaxElements}

XarInit == xar_toc \in XarTocs /\ xar_result = NotCalled

XarEntries ==
    /\ xar_result = NotCalled
    /\ xar_result' = [called |-> TRUE, entries |-> entries_from(xar_toc, 1)]
    /\ UNCHANGED xar_toc

XarNext == XarEntries

(***************************************************************************)
(* generate_location (stacs/scan/scanner/rules.py).  A text file is its size *)
(* in characters and the positions of its newline characters; the positions  *)
(* and the offsets are drawn from values on both sides of the chunk           *)
(* boundaries.  A line of a Location is <<n>>, or NoInt when it is not set.    *)
(***************************************************************************)
LocationIdle ==
    loc_target = Idle /\ loc_offset = Idle /\ loc_read = Idle /\ loc_result = Idle

MaxNewlines == 2

FileSizes == {20, CHUNK_SIZE + 20, 2 * CHUNK_SIZE + 20}

NewlinePositions == {3, 12, CHUNK_SIZE - 1, CHUNK_SIZE + 3, CHUNK_SIZE + 12, 2 * CHUNK_SIZE + 3}

MatchOffsets == {0, 8, CHUNK_SIZE, CHUNK_SIZE + 8, 2 * CHUNK_SIZE, 2 * CHUNK_SIZE + 8}

\* fin.read(n).count("\n") with the handle at position: the newlines among the
\* next n characters.
CountRead(target, position, n) ==
    Cardinality({p \in target.newlines : position <= p /\ p < position + n})

\* The position of the handle after fin.read(n).
Advance(target, position, n) ==
    IF position + n > target.size THEN target.size ELSE position + n

LocationInit ==
    /\ \E binary \in BOOLEAN, size \in FileSizes, newlines \in SUBSET NewlinePositions :
          /\ Cardinality(newlines) <= MaxNewlines
          /\ \A p \in newlines : p < size
          /\ loc_target = [binary |-> binary, size |-> size, newlines |-> newlines]
    /\ loc_offset \in {o \in MatchOffsets : o <= loc_target.size}
    /\ loc_read = [bytes_read |-> 0, line_number |-> 0, position |-> 0]
    /\ loc_result = NotCalled

\* if is_binary(target): return finding.Location(offset=offset)
LocateBinary ==
    /\ loc_result = NotCalled
    /\ loc_target.binary
    /\ loc_result' = [called |-> TRUE, offset |-> loc_offset, line |-> NoInt]
    /\ UNCHANGED <<loc_target, loc_offset, loc_read>>

\* One pass of the while loop.
ReadChunk ==
    /\ loc_result = NotCalled
    /\ ~loc_target.binary
    /\ loc_read.bytes_read < loc_offset
    /\ LET bytes_read == loc_read.bytes_read + CHUNK_SIZE
           n == IF bytes_read > loc_offset THEN loc_offset ELSE CHUNK_SIZE
       IN  loc_read' = [bytes_read |-> bytes_read,
                        line_number |-> loc_read.line_number
                                          + CountRead(loc_target, loc_read.position, n),
                        position |-> Advance(loc_target, loc_read.position, n)]
    /\ UNCHANGED <<loc_target, loc_offset, loc_result>>

\* return finding.Location(offset=offset, line=line_number)
LocateText ==
    /\ loc_result = NotCalled
    /\ ~loc_target.binary
    /\ loc_read.bytes_read >= loc_offset
    /\ loc_result' = [called |-> TRUE, offset |-> loc_offset,
                      line |-> <<loc_read.line_number>>]
    /\ UNCHANGED <<loc_target, loc_offset, loc_read>>

LocationNext == LocateBinary \/ ReadChunk \/ LocateText

(***************************************************************************)
(* walker (stacs/scan/loader/filepath.py).  A filesystem is a sequence of     *)
(* nodes: a node has a parent (0 for the directory the scan starts from the  *)
(* outside of), a kind (regular file, directory, symbolic link), for a link   *)
(* its target (0 when it dangles) and for a directory whether it can be read. *)
(* A path is the sequence of the nodes it names, so a path through a link     *)
(* holds the link and not its target.                                         *)
(***************************************************************************)
WalkerIdle ==
    walk_fs = Idle /\ walk_path = Idle /\ walk_skip = Idle /\ walk_result = Idle

MaxNodes == 3

\* The node a path component names once symbolic links are followed.
Resolve(fs, node) == IF fs[node].kind = "link" THEN fs[node].target ELSE node

\* walker(path, skip_on_eacces): os.scandir follows a link given as the path;
\* DirEntry.is_dir and is_file are true of a link to one, which is_symlink
\* rules out.  A PermissionError of os.scandir in the recursive call is caught
\* around the entry of the calling pass.
RECURSIVE walker(_, _, _)
walker(fs, path, skip) ==
    LET node == Resolve(fs, path[Len(path)])
        scan == {c \in DOMAIN fs : fs[c].parent = node}
        walks == [c \in {d \in scan : fs[d].kind = "dir"} |->
                     walker(fs, Append(path, c), skip)]
    IN  CASE node = 0 -> [raised |-> "FileNotFoundError"]
          [] node # 0 /\ fs[node].kind # "dir" -> [raised |-> None, entries |-> {path}]
          [] node # 0 /\ fs[node].kind = "dir" /\ ~fs[node].readable ->
                [raised |-> "PermissionError"]
          [] OTHER ->
                IF ~skip /\ \E c \in DOMAIN walks : walks[c].raised # None
                THEN [raised |-> "PermissionError"]
                ELSE [raised |-> None,
                      entries |->
                          {Append(path, c) : c \in {f \in scan : fs[f].kind = "file"}}
                            \cup UNION {walks[c].entries :
                                           c \in {d \in DOMAIN walks :
                                                     walks[d].raised = None}}]

\* The nodes a filesystem of n nodes can hold.
NodesOf(n) ==
    [parent : 0 .. n - 1, kind : {"file"}, target : {0}, readable : {TRUE}]
        \cup [parent : 0 .. n - 1, kind : {"dir"}, target : {0}, readable : BOOLEAN]
        \cup [parent : 0 .. n - 1, kind : {"link"}, target : 0 .. n, readable : {TRUE}]

\* The filesystems: a parent is a directory that comes before its children, a
\* link points at a file or a directory.
Filesystems ==
    UNION {{fs \in [1 .. n -> NodesOf(n)] :
                \A k \in 1 .. n :
                    /\ fs[k].parent < k
                    /\ fs[k].parent # 0 => fs[fs[k].parent].kind = "dir"
                    /\ fs[k].target # 0 => fs[fs[k].target].kind # "link"} :
           n \in 1 .. MaxNodes}

WalkerInit ==
    /\ walk_fs \in Filesystems
    /\ walk_path \in {<<k>> : k \in DOMAIN walk_fs}
    /\ walk_skip \in BOOLEAN
    /\ walk_result = NotCalled

Walk ==
    /\ walk_result = NotCalled
    /\ walk_result' = walker(walk_fs, walk_path, walk_skip)
    /\ UNCHANGED <<walk_fs, walk_path, walk_skip>>

WalkerNext == Walk

(***************************************************************************)
(* libarchive_handler (stacs/scan/loader/archive.py).  A path is a sequence  *)
(* of components, names or "." or ".." or "" (what comes before a leading    *)
(* "/"), from the cache directory down; the filesystem is the set of nodes   *)
(* under the cache directory, each a resolved path with its kind: "dir",     *)
(* "file" for a file that was there before the call, "written" for a file    *)
(* the handler has opened for writing.  An entry's filename is whatever the  *)
(* archive holds.                                                            *)
(***************************************************************************)
LibarchiveIdle ==
    lib_entries = Idle /\ lib_corrupt = Idle /\ lib_fs = Idle /\ lib_result = Idle

MaxEntries == 2

\* The directory the archive is unpacked to, and a file next to it.
UnpackDirectory == <<"d">>

Neighbour == [path |-> <<"x">>, kind |-> "file"]

MemberNames ==
    { <<"x">>, <<"..", "x">>, <<".">>, <<"a">>, <<"a", "x">>, <<"", "x">>,
      <<"a", "..", "..", "x">>, <<"a", "..", "..", "x", "y">> }

\* member.lstrip("../").lstrip("./"): the leading characters "." and "/" go, so
\* the leading components ".", ".." and "" do, and nothing after the first name.
RECURSIVE LStripDots(_)
LStripDots(member) ==
    IF member # <<>> /\ Head(member) \in {".", "..", ""}
    THEN LStripDots(Tail(member))
    ELSE member

KindAt(fs, path) ==
    IF path = <<>> THEN "dir"
    ELSE IF \E n \in fs : n.path = path
    THEN (CHOOSE n \in fs : n.path = path).kind
    ELSE "none"

\* The node a path names, from the node at on: "." stays, ".." goes up, and
\* every component but the last has to be in a directory.
RECURSIVE ResolveFrom(_, _, _)
ResolveFrom(fs, at, path) ==
    IF path = <<>> THEN [ok |-> TRUE, path |-> at]
    ELSE IF KindAt(fs, at) # "dir" THEN [ok |-> FALSE, path |-> at]
    ELSE CASE Head(path) \in {".", ""} -> ResolveFrom(fs, at, Tail(path))
           [] Head(path) = ".." ->
                ResolveFrom(fs, IF at = <<>> THEN at ELSE SubSeq(at, 1, Len(at) - 1),
                            Tail(path))
           [] OTHER -> ResolveFrom(fs, Append(at, Head(path)), Tail(path))

\* os.path.exists, os.path.isdir and os.path.isfile
KindOf(fs, path) ==
    LET node == ResolveFrom(fs, <<>>, path)
    IN  IF node.ok THEN KindAt(fs, node.path) ELSE "none"

\* os.path.dirname
Dirname(path) == SubSeq(path, 1, Len(path) - 1)

\* os.mkdir(path): the filesystem after it and what it raised.
Mkdir(fs, path) ==
    LET node == ResolveFrom(fs, <<>>, path)
    IN  CASE KindOf(fs, Dirname(path)) # "dir" -> [fs |-> fs, raised |-> "FileNotFoundError"]
          [] KindOf(fs, Dirname(path)) = "dir" /\ KindAt(fs, node.path) # "none" ->
                [fs |-> fs, raised |-> "FileExistsError"]
          [] OTHER -> [fs |-> fs \cup {[path |-> node.path, kind |-> "dir"]},
                       raised |-> None]

\* os.makedirs(name, exist_ok=exist_ok)
RECURSIVE makedirs(_, _, _)
makedirs(fs, name, exist_ok) ==
    LET head == Dirname(name)
        made == IF head # <<>> /\ KindOf(fs, head) = "none"
                THEN makedirs(fs, head, exist_ok)
                ELSE [fs |-> fs, raised |-> None]
        last == Mkdir(made.fs, name)
    IN  CASE made.raised \notin {None, "FileExistsError"} -> made
          [] made.raised \in {None, "FileExistsError"} /\ name[Len(name)] = "."
                /\ head # <<>> /\ KindOf(fs, head) = "none" ->
                [fs |-> made.fs, raised |-> None]
          [] OTHER ->
                IF last.raised # None /\ exist_ok /\ KindOf(made.fs, name) = "dir"
                THEN [fs |-> made.fs, raised |-> None]
                ELSE last

\* open(destination, "wb")
OpenForWriting(fs, destination) ==
    LET node == ResolveFrom(fs, <<>>, destination)
    IN  CASE KindOf(fs, Dirname(destination)) # "dir" ->
                [fs |-> fs, raised |-> "FileNotFoundError"]
          [] KindOf(fs, Dirname(destination)) = "dir" /\ KindAt(fs, node.path) = "dir" ->
                [fs |-> fs, raised |-> "IsADirectoryError"]
          [] OTHER ->
                [fs |-> {n \in fs : n.path # node.path}
                          \cup {[path |-> node.path, kind |-> "written"]},
                 raised |-> None]

\* The body of the loop for one entry: the filesystem after it and what it raised.
ExtractEntry(fs, entry) ==
    LET member == LStripDots(entry.filename)
        destination == UnpackDirectory \o member
        parent == IF member = <<>> THEN destination ELSE Dirname(destination)
        unlinked == IF KindOf(fs, parent) \in {"file", "written"}
                    THEN {n \in fs : n.path # ResolveFrom(fs, <<>>, parent).path}
                    ELSE fs
        parents == IF KindOf(unlinked, parent) # "dir"
                   THEN makedirs(unlinked, parent, FALSE)
                   ELSE [fs |-> unlinked, raised |-> None]
    IN  CASE entry.filename = <<".">> -> [fs |-> fs, raised |-> None]
          [] entry.filename # <<".">> /\ KindOf(unlinked, destination) = "dir" ->
                [fs |-> unlinked, raised |-> None]
          [] OTHER ->
                IF parents.raised # None THEN parents
                ELSE IF entry.isdir THEN makedirs(parents.fs, destination, TRUE)
                ELSE OpenForWriting(parents.fs, destination)

RECURSIVE ArchivesOf(_)
ArchivesOf(n) ==
    IF n = 0 THEN {<<>>}
    ELSE ArchivesOf(n - 1)
            \cup {Append(a, e) : a \in {b \in ArchivesOf(n - 1) : Len(b) = n - 1},
                                 e \in [filename : MemberNames, isdir : BOOLEAN]}

LibarchiveInit ==
    /\ lib_entries \in ArchivesOf(MaxEntries)
    /\ lib_corrupt \in BOOLEAN
    /\ lib_fs \in {{Neighbour}, {Neighbour, [path |-> UnpackDirectory, kind |-> "dir"]}}
    /\ lib_result = NotCalled

LibraryEnds(how) == lib_result' = [called |-> TRUE, ended |-> how]

\* os.mkdir(directory, mode=0o700); OSError becomes FileAccessException.
MakeUnpackDirectory ==
    /\ lib_result = NotCalled
    /\ LET made == Mkdir(lib_fs, UnpackDirectory)
       IN  /\ lib_fs' = made.fs
           /\ LibraryEnds(IF made.raised = None THEN "running" ELSE "FileAccessException")
    /\ UNCHANGED <<lib_entries, lib_corrupt>>

\* for entry in reader: one entry; an OSError is not caught.
ExtractMember ==
    /\ lib_result # NotCalled /\ lib_result.ended = "running"
    /\ lib_entries # <<>>
    /\ LET done == ExtractEntry(lib_fs, Head(lib_entries))
       IN  /\ lib_fs' = done.fs
           /\ IF done.raised = None THEN UNCHANGED lib_result ELSE LibraryEnds("OSError")
    /\ lib_entries' = Tail(lib_entries)
    /\ UNCHANGED lib_corrupt

\* The reader is exhausted, or raises ArchiveError, which becomes
\* InvalidFileException.
CloseReader ==
    /\ lib_result # NotCalled /\ lib_result.ended = "running"
    /\ lib_entries = <<>>
    /\ LibraryEnds(IF lib_corrupt THEN "InvalidFileException" ELSE "returned")
    /\ UNCHANGED <<lib_entries, lib_corrupt, lib_fs>>

LibarchiveNext == MakeUnpackDirectory \/ ExtractMember \/ CloseReader

(***************************************************************************)
(* Specifications: one per component.                                      *)
(***************************************************************************)
Init ==
    /\ FinderInit
    /\ SampleIdle
    /\ MatchIdle
    /\ ProcessIdle
    /\ MainIdle
    /\ MimeIdle
    /\ RunIdle
    /\ ZipIdle
    /\ EntryIdle
    /\ SarifIdle
    /\ ExtractIdle
    /\ XarIdle
    /\ LocationIdle
    /\ WalkerIdle
    /\ LibarchiveIdle

Next ==
    /\ FinderNext
    /\ UNCHANGED <<sampleVars, matchVars, processVars, mainVars, mimeVars, runVars,
                    zipVars, entryVars, sarifVars, extractVars, xarVars, locationVars,
                    walkerVars, libarchiveVars>>

Spec == Init /\ [][Next]_vars

InitSample ==
    /\ SampleInit
    /\ FinderIdle
    /\ MatchIdle
    /\ ProcessIdle
    /\ MainIdle
    /\ MimeIdle
    /\ RunIdle
    /\ ZipIdle
    /\ EntryIdle
    /\ SarifIdle
    /\ ExtractIdle
    /\ XarIdle
    /\ LocationIdle
    /\ WalkerIdle
    /\ LibarchiveIdle

NextSample ==
    /\ SampleNext
    /\ UNCHANGED <<finderVars, matchVars, processVars, mainVars, mimeVars, runVars,
                    zipVars, entryVars, sarifVars, extractVars, xarVars, locationVars,
                    walkerVars, libarchiveVars>>

SpecSample == InitSample /\ [][NextSample]_vars

InitMatch ==
    /\ MatchInit
    /\ FinderIdle
    /\ SampleIdle
    /\ ProcessIdle
    /\ MainIdle
    /\ MimeIdle
    /\ RunIdle
    /\ ZipIdle
    /\ EntryIdle
    /\ SarifIdle
    /\ ExtractIdle
    /\ XarIdle
    /\ LocationIdle
    /\ WalkerIdle
    /\ LibarchiveIdle

NextMatch ==
    /\ MatchNext
    /\ UNCHANGED <<finderVars, sampleVars, processVars, mainVars, mimeVars, runVars,
                    zipVars, entryVars, sarifVars, extractVars, xarVars, locationVars,
                    walkerVars, libarchiveVars>>

SpecMatch == InitMatch /\ [][NextMatch]_vars

InitProcess ==
    /\ ProcessInit
    /\ FinderIdle
    /\ SampleIdle
    /\ MatchIdle
    /\ MainIdle
    /\ MimeIdle
    /\ RunIdle
    /\ ZipIdle
    /\ EntryIdle
    /\ SarifIdle
    /\ ExtractIdle
    /\ XarIdle
    /\ LocationIdle
    /\ WalkerIdle
    /\ LibarchiveIdle

NextProcess ==
    /\ ProcessNext
    /\ UNCHANGED <<finderVars, sampleVars, matchVars, mainVars, mimeVars, runVars,
                    zipVars, entryVars, sarifVars, extractVars, xarVars, locationVars,
                    walkerVars, libarchiveVars>>

SpecProcess == InitProcess /\ [][NextProcess]_vars

InitMain ==
    /\ MainInit
    /\ FinderIdle
    /\ SampleIdle
    /\ MatchIdle
    /\ ProcessIdle
    /\ MimeIdle
    /\ RunIdle
    /\ ZipIdle
    /\ EntryIdle
    /\ SarifIdle
    /\ ExtractIdle
    /\ XarIdle
    /\ LocationIdle
    /\ WalkerIdle
    /\ LibarchiveIdle

NextMain ==
    /\ MainNext
    /\ UNCHANGED <<finderVars, sampleVars, matchVars, processVars, mimeVars, runVars,
                    zipVars, entryVars, sarifVars, extractVars, xarVars, locationVars,
                    walkerVars, libarchiveVars>>

SpecMain == InitMain /\ [][NextMain]_vars

InitMime ==
    /\ MimeInit
    /\ FinderIdle
    /\ SampleIdle
    /\ MatchIdle
    /\ ProcessIdle
    /\ MainIdle
    /\ RunIdle
    /\ ZipIdle
    /\ EntryIdle
    /\ SarifIdle
    /\ ExtractIdle
    /\ XarIdle
    /\ LocationIdle
    /\ WalkerIdle
    /\ LibarchiveIdle

NextMime ==
    /\ MimeNext
    /\ UNCHANGED <<finderVars, sampleVars, matchVars, processVars, mainVars, runVars,
                    zipVars, entryVars, sarifVars, extractVars, xarVars, locationVars,
                    walkerVars, libarchiveVars>>

SpecMime == InitMime /\ [][NextMime]_vars

InitRun ==
    /\ RunInit
    /\ FinderIdle
    /\ SampleIdle
    /\ MatchIdle
    /\ ProcessIdle
    /\ MainIdle
    /\ MimeIdle
    /\ ZipIdle
    /\ EntryIdle
    /\ SarifIdle
    /\ ExtractIdle
    /\ XarIdle
    /\ LocationIdle
    /\ WalkerIdle
    /\ LibarchiveIdle

NextRun ==
    /\ RunNext
    /\ UNCHANGED <<finderVars, sampleVars, matchVars, processVars, mainVars, mimeVars,
                    zipVars, entryVars, sarifVars, extractVars, xarVars, locationVars,
                    walkerVars, libarchiveVars>>

SpecRun == InitRun /\ [][NextRun]_vars

InitZip ==
    /\ ZipInit
    /\ FinderIdle
    /\ SampleIdle
    /\ MatchIdle
    /\ ProcessIdle
    /\ MainIdle
    /\ MimeIdle
    /\ RunIdle
    /\ EntryIdle
    /\ SarifIdle
    /\ ExtractIdle
    /\ XarIdle
    /\ LocationIdle
    /\ WalkerIdle
    /\ LibarchiveIdle

NextZip ==
    /\ ZipNext
    /\ UNCHANGED <<finderVars, sampleVars, matchVars, processVars, mainVars, mimeVars,
                    runVars, entryVars, sarifVars, extractVars, xarVars, locationVars,
                    walkerVars, libarchiveVars>>

SpecZip == InitZip /\ [][NextZip]_vars

InitEntry ==
    /\ EntryInit
    /\ FinderIdle
    /\ SampleIdle
    /\ MatchIdle
    /\ ProcessIdle
    /\ MainIdle
    /\ MimeIdle
    /\ RunIdle
    /\ ZipIdle
    /\ SarifIdle
    /\ ExtractIdle
    /\ XarIdle
    /\ LocationIdle
    /\ WalkerIdle
    /\ LibarchiveIdle

NextEntry ==
    /\ EntryNext
    /\ UNCHANGED <<finderVars, sampleVars, matchVars, processVars, mainVars, mimeVars,
                    runVars, zipVars, sarifVars, extractVars, xarVars, locationVars,
                    walkerVars, libarchiveVars>>

SpecEntry == InitEntry /\ [][NextEntry]_vars

InitSarif ==
    /\ SarifInit
    /\ FinderIdle
    /\ SampleIdle
    /\ MatchIdle
    /\ ProcessIdle
    /\ MainIdle
    /\ MimeIdle
    /\ RunIdle
    /\ ZipIdle
    /\ EntryIdle
    /\ ExtractIdle
    /\ XarIdle
    /\ LocationIdle
    /\ WalkerIdle
    /\ LibarchiveIdle

NextSarif ==
    /\ SarifNext
    /\ UNCHANGED <<finderVars, sampleVars, matchVars, processVars, mainVars, mimeVars,
                    runVars, zipVars, entryVars, extractVars, xarVars, locationVars,
                    walkerVars, libarchiveVars>>

SpecSarif == InitSarif /\ [][NextSarif]_vars

InitExtract ==
    /\ ExtractInit
    /\ FinderIdle
    /\ SampleIdle
    /\ MatchIdle
    /\ ProcessIdle
    /\ MainIdle
    /\ MimeIdle
    /\ RunIdle
    /\ ZipIdle
    /\ EntryIdle
    /\ SarifIdle
    /\ XarIdle
    /\ LocationIdle
    /\ WalkerIdle
    /\ LibarchiveIdle

NextExtract ==
    /\ ExtractNext
    /\ UNCHANGED <<finderVars, sampleVars, matchVars, processVars, mainVars, mimeVars,
                    runVars, zipVars, entryVars, sarifVars, xarVars, locationVars,
                    walkerVars, libarchiveVars>>

SpecExtract == InitExtract /\ [][NextExtract]_vars

InitXar ==
    /\ XarInit
    /\ FinderIdle
    /\ SampleIdle
    /\ MatchIdle
    /\ ProcessIdle
    /\ MainIdle
    /\ MimeIdle
    /\ RunIdle
    /\ ZipIdle
    /\ EntryIdle
    /\ SarifIdle
    /\ ExtractIdle
    /\ LocationIdle
    /\ WalkerIdle
    /\ LibarchiveIdle

NextXar ==
    /\ XarNext
    /\ UNCHANGED <<finderVars, sampleVars, matchVars, processVars, mainVars, mimeVars,
                    runVars, zipVars, entryVars, sarifVars, extractVars, locationVars,
                    walkerVars, libarchiveVars>>

SpecXar == InitXar /\ [][NextXar]_vars

InitLocation ==
    /\ LocationInit
    /\ FinderIdle
    /\ SampleIdle
    /\ MatchIdle
    /\ ProcessIdle
    /\ MainIdle
    /\ MimeIdle
    /\ RunIdle
    /\ ZipIdle
    /\ EntryIdle
    /\ SarifIdle
    /\ ExtractIdle
    /\ XarIdle
    /\ WalkerIdle
    /\ LibarchiveIdle

NextLocation ==
    /\ LocationNext
    /\ UNCHANGED <<finderVars, sampleVars, matchVars, processVars, mainVars, mimeVars,
                    runVars, zipVars, entryVars, sarifVars, extractVars, xarVars,
                    walkerVars, libarchiveVars>>

SpecLocation == InitLocation /\ [][NextLocation]_vars

InitWalker ==
    /\ WalkerInit
    /\ FinderIdle
    /\ SampleIdle
    /\ MatchIdle
    /\ ProcessIdle
    /\ MainIdle
    /\ MimeIdle
    /\ RunIdle
    /\ ZipIdle
    /\ EntryIdle
    /\ SarifIdle
    /\ ExtractIdle
    /\ XarIdle
    /\ LocationIdle
    /\ LibarchiveIdle

NextWalker ==
    /\ WalkerNext
    /\ UNCHANGED <<finderVars, sampleVars, matchVars, processVars, mainVars, mimeVars,
                    runVars, zipVars, entryVars, sarifVars, extractVars, xarVars,
                    locationVars, libarchiveVars>>

SpecWalker == InitWalker /\ [][NextWalker]_vars

InitLibarchive ==
    /\ LibarchiveInit
    /\ FinderIdle
    /\ SampleIdle
    /\ MatchIdle
    /\ ProcessIdle
    /\ MainIdle
    /\ MimeIdle
    /\ RunIdle
    /\ ZipIdle
    /\ EntryIdle
    /\ SarifIdle
    /\ ExtractIdle
    /\ XarIdle
    /\ LocationIdle
    /\ WalkerIdle

NextLibarchive ==
    /\ LibarchiveNext
    /\ UNCHANGED <<finderVars, sampleVars, matchVars, processVars, mainVars, mimeVars,
                    runVars, zipVars, entryVars, sarifVars, extractVars, xarVars,
                    locationVars, walkerVars>>

SpecLibarchive == InitLibarchive /\ [][NextLibarchive]_vars

(***************************************************************************)
(* Claims about finder.                                                    *)
(***************************************************************************)
IsArchive(entry) == entry.mime \in MIME_TYPE_HANDLERS

\* file lies under the destination that the archive at filepath unpacks to.
ExtractedFrom(file, filepath) ==
    LET destination == Destination(cache, filepath)
    IN  /\ Len(file) > Len(destination) + 1
        /\ SubSeq(file, 1, Len(destination) + 1) = destination \o <<"/">>

\* The path of a file relative to the destination it lies under.
RelativeTo(file, filepath) ==
    SubSeq(file, Len(Destination(cache, filepath)) + 2, Len(file))

\* The files unpacked from the archives that have an Entry.
ExtractedFiles ==
    UNION { WalkDestination(entries[i], Destination(cache, entries[i].path)) :
              i \in { k \in DOMAIN entries : IsArchive(entries[k]) } }

HasEntry(file) == \E i \in DOMAIN entries : entries[i].path = file

JobsOf(file) == { j \in DOMAIN jobs : jobs[j].file = file }

\* C1 (as amended): finder returns normally only when no metadata job is
\* outstanding: every job ever submitted has finished and has been consumed, the
\* Entry of every job that succeeded is in the list, and every file extracted
\* from a discovered archive has had a job, and has an Entry unless every job
\* for it failed with a file-access error.
C1_ReturnsOnlyWhenDrained ==
    pc = "returned" =>
        /\ futures = {}
        /\ pending = {}
        /\ \A j \in DOMAIN jobs :
              /\ Finished(j)
              /\ jobs[j].status = "ok" =>
                    \E i \in DOMAIN entries :
                        entries[i] = metadata(jobs[j].file, jobs[j].overlay)
        /\ \A file \in ExtractedFiles :
              /\ JobsOf(file) # {}
              /\ (\E j \in JobsOf(file) : jobs[j].status = "ok") => HasEntry(file)

\* C1 as stated: on return every file extracted from every discovered archive
\* has an Entry in the returned list.
C1_EveryExtractedFileHasEntry ==
    pc = "returned" => \A file \in ExtractedFiles : HasEntry(file)

\* finder has returned after unpacking the nested archive and consuming the
\* jobs of both of its members, submitted while the loop was draining.
C1_Witness ==
    /\ pc = "returned"
    /\ Len(jobs) >= 5
    /\ \E i \in DOMAIN entries : Basename(entries[i].path) = "cred.txt"
    /\ \E i \in DOMAIN entries : Basename(entries[i].path) = "k.pem"

\* C2: with the skip flag set, a metadata job that fails with a file-access
\* error does not abort finder, and finder returns exactly the Entries of the
\* jobs that succeeded, each once; with the flag not set the error propagates.
C2_SkipSwallowsFileAccessError ==
    /\ skip_on_eacces => error.from \notin {"future.result", "entries.append"}
    /\ (skip_on_eacces /\ pc = "returned") =>
          \A i \in DOMAIN entries :
              Cardinality({ k \in DOMAIN entries : entries[k] = entries[i] })
                <= Cardinality({ j \in JobsOf(entries[i].path) : jobs[j].status = "ok" })
    /\ (~skip_on_eacces /\ pc = "returned") =>
          \A j \in DOMAIN jobs : jobs[j].status = "ok"

\* C3: an invalid-file error of an extractor never aborts finder.
C3_InvalidFileNeverAborts ==
    error.kind # "InvalidFileException"

C5_OverlayOfExtractedFile ==
    /\ \A i, k \in DOMAIN entries :
          (IsArchive(entries[i]) /\ ExtractedFrom(entries[k].path, entries[i].path))
              => entries[k].overlay =
                    (IF entries[i].overlay # NoStr
                     THEN entries[i].overlay ELSE entries[i].path)
                    \o <<"!">> \o RelativeTo(entries[k].path, entries[i].path)
    /\ \A k \in DOMAIN entries :
          Basename(entries[k].path) = "cred.txt"
              => entries[k].overlay =
                    <<"root", "/", "a.tar.gz", "!", "a.tar", "!", "cred.txt">>

\* C22: when finder aborts with a propagated error, every job submitted to the
\* pool has finished before the error reaches the caller: no worker is running
\* a metadata job after finder has returned or raised.
C22_PoolDrainedBeforeErrorPropagates ==
    pc \in {"raised", "returned"} => \A j \in DOMAIN jobs : Finished(j)

\* finder has raised a file-access error while a job submitted in the same pass,
\* for a file of an unpacked archive, had not been consumed.
C22_Witness ==
    /\ pc = "raised"
    /\ error.kind = "FileAccessException"
    /\ \E j \in futures \ pending : j > Cardinality(RootFiles) /\ Finished(j)

\* The jobs whose metadata call returned an Entry.
Succeeded == {j \in DOMAIN jobs : jobs[j].status = "ok"}

\* C27: with the skip flag set, the list finder returns contains exactly one
\* Entry for each file whose metadata job succeeded, no Entry for a file whose
\* job failed, and no Entry twice.
C27_OneEntryPerSucceededJob ==
    (pc = "returned" /\ skip_on_eacces) =>
        /\ Len(entries) = Cardinality(Succeeded)
        /\ \A j \in Succeeded :
              \E i \in DOMAIN entries :
                  entries[i] = metadata(jobs[j].file, jobs[j].overlay)
        /\ \A i \in DOMAIN entries :
              \E j \in Succeeded : entries[i] = metadata(jobs[j].file, jobs[j].overlay)
        /\ \A i, k \in DOMAIN entries : entries[i] = entries[k] => i = k

\* The file is inside the directory.
Inside(file, directory) ==
    /\ Len(file) > Len(directory)
    /\ SubSeq(file, 1, Len(directory)) = directory

\* C28: an extraction directory is never removed or rewritten while a metadata
\* job for a file inside it is submitted but not yet completed: a step of the
\* driver that removes a destination and extracts into it finds no unfinished
\* job for a file of that destination.
C28_NoExtractionUnderRunningJob ==
    [][(entries' # entries /\ result'.mime \in MIME_TYPE_HANDLERS) =>
          \A j \in DOMAIN jobs :
              Inside(jobs[j].file, Destination(cache, result'.path)) => Finished(j)]_vars

\* An iteration of the for loop, told by what every Consume step does and no
\* other step: it is enabled exactly when as_completed has a finished job to
\* yield.
ConsumeStep ==
    /\ pc = "for"
    /\ \E j \in pending : Finished(j)
    /\ complete' = complete + 1

\* Fair scheduling: a worker that can take or finish a job does, and the driver
\* thread takes its next step when it has one.
FairSpec ==
    /\ Spec
    /\ WF_finderVars(\E j \in DOMAIN jobs : StartJob(j))
    /\ WF_finderVars(\E j \in DOMAIN jobs : FinishJob(j) \/ FailJob(j))
    /\ WF_finderVars(BeginPass \/ EndPass \/ Unwind)
    /\ WF_complete(ConsumeStep)

\* C29: if every metadata job and every extraction terminates, finder eventually
\* returns with no job left unconsumed: with the skip flag set, so that no
\* failed job aborts it, finder returns unless an extraction has raised.
C29_FinderEventuallyReturns ==
    skip_on_eacces =>
        <>((pc = "returned" /\ futures = {}) \/ error.from = "handler")

(***************************************************************************)
(* Claims about main.                                                      *)
(***************************************************************************)
\* C6: a run that completes scanning and reporting exits with status 100 when
\* at least one Finding carries no ignore record and with status 0 when every
\* Finding is suppressed or there is none, whichever output format is selected.
C6_ExitCodeReflectsUnsuppressedFindings ==
    main_pc = "reported" =>
        exit_status = (IF \E i \in DOMAIN main_findings :
                              main_findings[i].ignore = NoIgnore
                       THEN 100 ELSE 0)

\* C15: a failure to compile the rule pack is fatal: the run ends with an error
\* and never goes on to suppression, reporting and a success exit code with an
\* empty findings list.
C15_CompileFailureIsFatal ==
    scanner_error = "InvalidFormatException" =>
        /\ main_pc = "exited"
        /\ exit_status # 0

\* C16: whenever the process has exited after the per-run cache directory was
\* created, the cache directory has been removed.
C16_CacheRemovedBeforeExit ==
    (main_pc \in {"exited", "reported"} /\ cache_directory # "absent")
        => cache_directory = "removed"

(***************************************************************************)
(* Claims about generate_sample.                                           *)
(***************************************************************************)
\* The bytes a field of the Sample holds.
SampleBytes(field) == IF sample.binary THEN field.b64 ELSE field.chars

\* C7: for a file of N bytes and offset + size <= N, generate_sample returns a
\* match of size bytes, min(WINDOW_SIZE, offset) bytes before it and
\* min(WINDOW_SIZE, N - offset - size) bytes after it.
C7_SampleBounds ==
    sample # NotCalled =>
        /\ Len(SampleBytes(sample.finding)) = sample_size
        /\ Len(SampleBytes(sample.before)) = Min(WINDOW_SIZE, sample_offset)
        /\ Len(SampleBytes(sample.after))
             = Min(WINDOW_SIZE, sample_target.size - sample_offset - sample_size)

(***************************************************************************)
(* Claims about the ignore-list filter.                                    *)
(***************************************************************************)
\* One of the entry's set shapes matches the finding.
ShapeMatches(finding, ignore) ==
    \/ TruthySeq(ignore.path) /\ ignore.path = finding.path
    \/ TruthySeq(ignore.pattern) /\ ReSearch(ignore.pattern, finding.path)
    \/ TruthyStr(ignore.md5) /\ ignore.md5 = finding.md5

\* All constraints of the entry align with the finding.
ConstraintsAlign(finding, ignore) ==
    /\ ignore.module = finding.source.module
    /\ ignore.references # <<>> => finding.source.reference \in Range(ignore.references)
    /\ ignore.offset # NoInt => ignore.offset = <<finding.location.offset>>

\* C8: an ignore entry matches a finding exactly when one of its set shapes
\* matches and all constraints align: the modules are equal, a non-empty
\* references list contains the rule id, and an offset that is set (offset 0
\* included) equals the finding's offset.
C8_MatchIffShapeAndConstraints ==
    (match_result # NotCalled /\ match_result.by_pattern # "re.error") =>
        ((match_result.by_path \/ match_result.by_pattern = "True"
            \/ match_result.by_hash)
         <=> (ShapeMatches(match_finding, match_ignore)
                /\ ConstraintsAlign(match_finding, match_ignore)))

\* The entry has at most one further constraint, and the finding meets it.
FurtherConstraintMet(finding, ignore) ==
    \/ ignore.references = <<>> /\ ignore.offset = NoInt
    \/ /\ ignore.offset = NoInt
       /\ finding.source.reference \in Range(ignore.references)
    \/ /\ ignore.references = <<>>
       /\ ignore.offset = <<finding.location.offset>>

\* C9: for a finding stamped with the rule scanner's module and an entry whose
\* module is left at its default, by_path, by_pattern and by_hash each return
\* True when the shape matches and the entry has no further constraint, or its
\* references contain the finding's reference, or its offset equals the
\* finding's offset, and False otherwise.
C9_DefaultModuleMatchesRuleFindings ==
    (/\ match_result # NotCalled
     /\ match_result.by_pattern # "re.error"
     /\ match_finding.source.module = RulesModuleName
     /\ match_ignore.module = DefaultIgnoreModule
     /\ match_ignore.references = <<>> \/ match_ignore.offset = NoInt) =>
        /\ match_result.by_path
             = (/\ TruthySeq(match_ignore.path)
                /\ match_ignore.path = match_finding.path
                /\ FurtherConstraintMet(match_finding, match_ignore))
        /\ (match_result.by_pattern = "True")
             = (/\ TruthySeq(match_ignore.pattern)
                /\ ReSearch(match_ignore.pattern, match_finding.path)
                /\ FurtherConstraintMet(match_finding, match_ignore))
        /\ match_result.by_hash
             = (/\ TruthyStr(match_ignore.md5)
                /\ match_ignore.md5 = match_finding.md5
                /\ FurtherConstraintMet(match_finding, match_ignore))

\* The entry matches the finding: one of the three functions returns True.
EntryMatches(finding, ignore) ==
    \/ by_path(finding, ignore)
    \/ ~by_pattern_raises(finding, ignore) /\ by_pattern(finding, ignore)
    \/ by_hash(finding, ignore)

MatchingEntries(finding) ==
    { k \in DOMAIN ignore_list : EntryMatches(finding, ignore_list[k]) }

Lowest(S) == CHOOSE k \in S : \A m \in S : k <= m

\* C10: when process returns, every finding that some entry matches carries
\* the reason of the lowest-index entry that matches it, the entries after
\* that one have not been evaluated, and a finding that no entry matches has
\* no ignore record.
C10_FirstMatchWins ==
    (filtered # NotCalled /\ filtered.error = None) =>
        /\ Len(filtered.findings) = Len(findings)
        /\ \A i \in DOMAIN findings :
              IF MatchingEntries(findings[i]) = {}
              THEN /\ filtered.findings[i].ignore = NoIgnore
                   /\ filtered.evaluated[i] = DOMAIN ignore_list
              ELSE /\ filtered.findings[i].ignore
                        = [ignored |-> TRUE,
                           reason |-> ignore_list[Lowest(MatchingEntries(findings[i]))].reason]
                   /\ filtered.evaluated[i] = 1..Lowest(MatchingEntries(findings[i]))

\* process has returned for a finding that two entries with different reasons
\* match and that is followed by an entry whose pattern does not compile, and
\* for a finding that the first entry of the list does not match and a later
\* one does.
C10_Witness ==
    /\ filtered # NotCalled
    /\ filtered.error = None
    /\ \E i \in DOMAIN findings, k, m, n \in DOMAIN ignore_list :
          /\ k < m /\ k < n
          /\ k \in MatchingEntries(findings[i])
          /\ Lowest(MatchingEntries(findings[i])) = k
          /\ m \in MatchingEntries(findings[i])
          /\ ignore_list[m].reason # ignore_list[k].reason
          /\ ~ReCompiles(ignore_list[n].pattern)
    /\ \E i \in DOMAIN findings :
          /\ MatchingEntries(findings[i]) # {}
          /\ Lowest(MatchingEntries(findings[i])) > 1

\* A finding with its ignore attribute cleared.
WithoutIgnore(finding) == [finding EXCEPT !.ignore = NoIgnore]

\* C11: the list process returns has the length and the order of its input, and
\* each item differs from its input at most in the ignore attribute being set:
\* path, md5, confidence, location, sample and source are unchanged.
C11_SuppressionMonotonicity ==
    (filtered # NotCalled /\ filtered.error = None) =>
        /\ Len(filtered.findings) = Len(findings)
        /\ \A i \in DOMAIN findings :
              /\ WithoutIgnore(filtered.findings[i]) = WithoutIgnore(findings[i])
              /\ filtered.findings[i].ignore # findings[i].ignore
                    => filtered.findings[i].ignore.ignored

\* process has returned a list in which a suppressed finding stands before one
\* that is not suppressed, and they are two different findings.
C11_Witness ==
    /\ filtered # NotCalled
    /\ filtered.error = None
    /\ \E i, k \in DOMAIN filtered.findings :
          /\ i < k
          /\ filtered.findings[i].ignore # NoIgnore
          /\ filtered.findings[k].ignore = NoIgnore
          /\ findings[i].path # findings[k].path

(***************************************************************************)
(* Claims about get_mimetype.                                              *)
(***************************************************************************)
\* The descriptor of the name get_mimetype returned.
Returned(name) ==
    CHOOSE i \in DOMAIN MimeDescriptors : MimeDescriptors[i].name = name

\* The descriptors with a magic that matches the chunk.
Matching(chunk) ==
    { i \in DOMAIN MimeDescriptors : MagicMatches(chunk, MimeDescriptors[i]) }

\* C12: a descriptor with a negative offset is evaluated, and can be returned,
\* only for a tail chunk (start false), and one with an offset >= 0 only for a
\* head chunk (start true); a head chunk that matches no magic at an offset
\* >= 0 yields (0, None), whatever its bytes at position -512.
C12_OffsetSignGatesDescriptors ==
    mime_result # NotCalled =>
        /\ mime_result.value[2] # None =>
              (MimeDescriptors[Returned(mime_result.value[2])].offset >= 0) = mime_start
        /\ (mime_start /\ \A i \in Matching(mime_chunk) : MimeDescriptors[i].offset < 0)
              => mime_result.value = <<0, None>>

\* The descriptors the loop does not skip for the chunk and whose magic matches.
Candidates ==
    { i \in Matching(mime_chunk) : ~Skipped(MimeDescriptors[i], mime_start) }

\* C13: get_mimetype returns the descriptor of highest weight among the
\* descriptors evaluated for the chunk whose magic matches, the first in
\* declaration order among those of that weight, and (0, None) exactly when no
\* evaluated descriptor matches.
C13_HighestWeightFirstDeclared ==
    mime_result # NotCalled =>
        IF Candidates = {}
        THEN mime_result.value = <<0, None>>
        ELSE \E i \in Candidates :
                /\ mime_result.value = <<MimeDescriptors[i].weight, MimeDescriptors[i].name>>
                /\ \A k \in Candidates :
                      \/ MimeDescriptors[k].weight < MimeDescriptors[i].weight
                      \/ (MimeDescriptors[k].weight = MimeDescriptors[i].weight /\ i <= k)

(***************************************************************************)
(* Claims about run.                                                       *)
(***************************************************************************)
\* The findings the job f has returned.
ProducedBy(f) == { run_futures[f].result[i] : i \in DOMAIN run_futures[f].result }

\* C14: run submits a matcher job only for targets whose mime is not a key of
\* MIME_TYPE_HANDLERS, so every finding of run was produced by the job of such
\* a target, and none reports the path on disk of a target that is a container.
C14_ContainerSkip ==
    /\ run_futures # <<>> =>
          \A f \in DOMAIN run_futures :
              run_targets[run_futures[f].target].mime \notin MIME_TYPE_HANDLERS
    /\ \A i \in DOMAIN run_findings :
          /\ \E f \in DOMAIN run_futures :
                /\ run_findings[i] \in ProducedBy(f)
                /\ run_targets[run_futures[f].target].mime \notin MIME_TYPE_HANDLERS
          /\ \A t \in DOMAIN run_targets :
                run_targets[t].mime \in MIME_TYPE_HANDLERS
                    => run_findings[i].path # run_targets[t].path

\* run has returned findings of two targets, one of them unpacked from an
\* archive, for a list of targets that holds an archive too.
C14_Witness ==
    /\ run_pc = "returned"
    /\ \E t \in DOMAIN run_targets : run_targets[t].mime \in MIME_TYPE_HANDLERS
    /\ \E i, k \in DOMAIN run_findings :
          /\ run_findings[i].path = <<"root", "/", "b.txt">>
          /\ Last(run_findings[k].path) = "cred.txt"

(***************************************************************************)
(* Claims about the extractors.                                            *)
(***************************************************************************)
\* C17: an extractor that stops before every member of the archive has been
\* written returns a failure, so finder never walks a destination whose
\* extraction ended part-way.
C17_PartialExtractionFails ==
    /\ (zip_result # NotCalled /\ zip_result.written # 1..zip_members)
          => zip_result.outcome # "ok"
    /\ zip_walked # NotCalled => zip_walked.files = 1..zip_members

(***************************************************************************)
(* Claims about the construction of an ignore Entry.                       *)
(***************************************************************************)
\* C18: an Entry with both path and pattern set is rejected with an
\* ignore-list error, whatever the other fields.
C18_PathAndPatternRejected ==
    (entry_result # NotCalled /\ entry_raw.path # NoStr /\ entry_raw.pattern # NoStr)
        => entry_result.error = "IgnoreListException"

\* C19: an Entry with none of path, pattern and md5 set is rejected with an
\* ignore-list error; every accepted Entry has at least one of the three set.
C19_NoShapeRejected ==
    (entry_result # NotCalled /\ entry_result.error = None)
        => \/ entry_result.entry.path # NoStr
           \/ entry_result.entry.pattern # NoStr
           \/ entry_result.entry.md5 # None

\* C20: an Entry that sets an offset (0 included) together with a non-empty
\* references list is rejected with an ignore-list error; no accepted Entry
\* has both.
C20_OffsetWithReferencesRejected ==
    (entry_result # NotCalled /\ entry_raw.offset # NoInt /\ entry_raw.references # <<>>)
        => entry_result.error = "IgnoreListException"

(***************************************************************************)
(* Claims about add_artifact.                                              *)
(***************************************************************************)
\* The "!"-separated prefixes of a finding path.
PathPrefixes(path) == { SubSeq(Split(path), 1, k) : k \in 1..Len(Split(path)) }

\* The uris of an artifact and of its ancestors, the artifact's first.
RECURSIVE ParentChain(_)
ParentChain(index) ==
    IF sarif_artifacts[index].parentIndex = NoInt
    THEN <<sarif_artifacts[index].uri>>
    ELSE <<sarif_artifacts[index].uri>>
            \o ParentChain(sarif_artifacts[index].parentIndex[1])

\* C21: the artifacts list holds exactly one artifact per distinct
\* "!"-separated prefix of the finding paths seen; two artifacts with the same
\* uri differ in parent chain; two findings with the same path get the same
\* index.
C21_OneArtifactPerPrefix ==
    /\ Len(sarif_artifacts)
         = Cardinality(UNION { PathPrefixes(sarif_added[i].path) : i \in DOMAIN sarif_added })
    /\ \A i, k \in DOMAIN sarif_artifacts :
          (i # k /\ sarif_artifacts[i].uri = sarif_artifacts[k].uri)
              => ParentChain(i) # ParentChain(k)
    /\ \A i, k \in DOMAIN sarif_added :
          sarif_added[i].path = sarif_added[k].path
              => sarif_added[i].index = sarif_added[k].index

(***************************************************************************)
(* Claims about the extractors.                                            *)
(***************************************************************************)
\* C23: every extractor call either succeeds or fails with exactly one of the two
\* failure kinds, file access or invalid file; malformed content never surfaces
\* as any other error.
C23_OnlyTwoFailureKinds ==
    ex_pc = "done" =>
        ex_result.ended \in {"returned", "FileAccessException", "InvalidFileException"}

(***************************************************************************)
(* Claims about XAR.entries.                                                 *)
(***************************************************************************)
\* The names of the ancestor directories of the k-th element, outermost first,
\* then its own name.
RECURSIVE AncestorPath(_, _)
AncestorPath(toc, k) ==
    IF toc[k].parent = 0 THEN <<toc[k].name>>
    ELSE AncestorPath(toc, toc[k].parent) \o <<"/", toc[k].name>>

\* C24: entries() returns exactly one entry per file element of type file, with
\* the path made of the names of its ancestor directories, outermost first, and
\* its own name; no element yields more than one entry, and an element of
\* another type yields none.
C24_OneEntryPerFileElement ==
    xar_result # NotCalled =>
        \A k \in DOMAIN xar_toc :
            LET found == {e \in DOMAIN xar_result.entries :
                             xar_result.entries[e].offset = k}
            IN  IF xar_toc[k].type = "file"
                THEN /\ Cardinality(found) = 1
                     /\ \A e \in found :
                           xar_result.entries[e].path = AncestorPath(xar_toc, k)
                ELSE found = {}

(***************************************************************************)
(* Claims about generate_location.                                         *)
(***************************************************************************)
\* C25: for a text file and any match offset within it, below or above
\* CHUNK_SIZE, generate_location returns line equal to the number of newline
\* characters in the first offset characters of the file; for a binary file it
\* returns the offset with no line.
C25_LineCountsNewlinesBeforeOffset ==
    loc_result # NotCalled =>
        /\ loc_result.offset = loc_offset
        /\ loc_result.line =
              IF loc_target.binary THEN NoInt
              ELSE <<Cardinality({p \in loc_target.newlines : p < loc_offset})>>

(***************************************************************************)
(* Claims about walker.                                                    *)
(***************************************************************************)
\* The node k is reachable from the node root through directories that are not
\* links and can be read.
RECURSIVE ReachableFrom(_, _, _)
ReachableFrom(fs, k, root) ==
    \/ k = root
    \/ /\ fs[k].parent # 0
       /\ fs[fs[k].parent].kind = "dir" /\ fs[fs[k].parent].readable
       /\ ReachableFrom(fs, fs[k].parent, root)

\* C26: walker returns each regular file reachable from the root through
\* non-symlink directories, and returns no path that is itself a symlink and no
\* path reached through a symlinked directory.
C26_NoSymlinkInWalk ==
    (walk_result # NotCalled /\ walk_result.raised = None) =>
        /\ \A path \in walk_result.entries :
              \A i \in DOMAIN path : walk_fs[path[i]].kind # "link"
        /\ \A k \in DOMAIN walk_fs :
              (walk_fs[k].kind = "file" /\ ReachableFrom(walk_fs, k, walk_path[1])) =>
                  \E path \in walk_result.entries : path[Len(path)] = k

(***************************************************************************)
(* Claims about libarchive_handler.                                        *)
(***************************************************************************)
\* C30: every path that libarchive_handler creates, writes or unlinks is the
\* destination directory or a descendant of it: outside the destination the
\* filesystem is what it was before the call.
C30_ExtractionStaysInDestination ==
    lib_result # NotCalled =>
        /\ Neighbour \in lib_fs
        /\ \A n \in lib_fs \ {Neighbour} :
              n.path = UnpackDirectory \/ Inside(n.path, UnpackDirectory)

====================================================================================
